---- MODULE Spec2Model ----
(***************************************************************************)
(* Model of the Wayback snapshot endpoint of website-analyzer/server.js:   *)
(* the handler of GET /api/wayback-snapshots/:url, the CDX line parser     *)
(* it contains, the sort / same-month filter / slice that follow it, and   *)
(* the helpers generateUrlVariants and determineChangeType.                *)
(*                                                                         *)
(* A JavaScript string is a sequence of one-character strings, except that *)
(* the fixed pieces of a URL (scheme, host name, path) are single opaque   *)
(* tokens; a timestamp is always spelled digit by digit, so substring,     *)
(* parseInt and localeCompare are computed on its characters.              *)
(***************************************************************************)
EXTENDS Integers, Sequences, FiniteSets, TLC

\* ------------------------------------------------------------------------
\* Bounds of the model
\* ------------------------------------------------------------------------
\* lines of a small response body, the header line included
MaxLines == 3
\* number of consecutive months in the generated large response body
BigMonths == 52
\* number of those months that have a second, later capture in that body
ExtraCaptures == 8

\* ------------------------------------------------------------------------
\* Program constants
\* ------------------------------------------------------------------------
\* uniqueSnapshots.slice(0, 50)
MaxSnapshots == 50

\* the longest URL string without a scheme, in tokens
MaxUrlTokens == 3

\* the most "www." labels in front of a registered name
MaxWww == 2

\* the years, up to 2023, of the capture dates that are classified
StampYears == 4

\* the longest list of records with distinct timestamps that is analysed
MaxRecords == 5

\* the months, from January 2022, of the captures at the ends of months
CalendarMonths == 14

\* the snapshots of the longest timeline
TimelineSnapshots == 11

\* the calls of fetchAndCompare of one code comparison
MaxFetches == 3

\* ------------------------------------------------------------------------
\* Strings
\* ------------------------------------------------------------------------
Min(a, b) == IF a < b THEN a ELSE b

DigitChar == <<"0", "1", "2", "3", "4", "5", "6", "7", "8", "9">>

IsDigit(c) == \E i \in 1..10 : DigitChar[i] = c

\* value of a digit character
DigitVal(c) == (CHOOSE i \in 1..10 : DigitChar[i] = c) - 1

\* String.prototype.substring(from, to) for 0 <= from <= to
substring(s, from, to) == SubSeq(s, Min(from, Len(s)) + 1, Min(to, Len(s)))

\* NaN, the result of parseInt on a string without a leading digit: a value
\* that no digit string, month index or day number of the model equals
NaN == -999999999

RECURSIVE DigitsValue(_)
DigitsValue(s) ==
    IF s = <<>> THEN 0
    ELSE 10 * DigitsValue(SubSeq(s, 1, Len(s) - 1)) + DigitVal(s[Len(s)])

RECURSIVE LeadingDigits(_)
LeadingDigits(s) ==
    IF s = <<>> \/ ~IsDigit(s[1]) THEN <<>>
    ELSE <<s[1]>> \o LeadingDigits(Tail(s))

\* parseInt(s): the value of the longest prefix of digits, NaN if there is none
parseInt(s) ==
    IF LeadingDigits(s) = <<>> THEN NaN ELSE DigitsValue(LeadingDigits(s))

\* String.prototype.localeCompare on strings of digits: -1, 0 or 1
RECURSIVE localeCompare(_, _)
localeCompare(a, b) ==
    IF a = <<>> /\ b = <<>> THEN 0
    ELSE IF a = <<>> THEN -1
    ELSE IF b = <<>> THEN 1
    ELSE IF DigitVal(a[1]) < DigitVal(b[1]) THEN -1
    ELSE IF DigitVal(a[1]) > DigitVal(b[1]) THEN 1
    ELSE localeCompare(Tail(a), Tail(b))

\* ------------------------------------------------------------------------
\* Dates
\* ------------------------------------------------------------------------
\* days from 1970-01-01 to the first day of month index mi (0 = January,
\* any integer) of year y, as the Date constructor normalises them
MakeDay(y, mi, d) ==
    LET yy  == y + (mi \div 12)
        m   == (mi % 12) + 1
        yp  == IF m <= 2 THEN yy - 1 ELSE yy
        era == yp \div 400
        yoe == yp - era * 400
        mp  == IF m > 2 THEN m - 3 ELSE m + 9
        doy == (153 * mp + 2) \div 5
        doe == yoe * 365 + (yoe \div 4) - (yoe \div 100) + doy
    IN  era * 146097 + doe - 719468 + (d - 1)

\* new Date(year, monthIndex, day).getTime() in whole local days; NaN if
\* a component is NaN; years 0..99 denote 1900..1999
DateDays(y, mi, d) ==
    IF y = NaN \/ mi = NaN \/ d = NaN THEN NaN
    ELSE MakeDay(IF y <= 99 THEN 1900 + y ELSE y, mi, d)

\* the function with strict comparisons: a bound belongs to the older label
determineChangeTypeExclusive(timestamp, today) ==
    LET year  == parseInt(substring(timestamp, 0, 4))
        month == parseInt(substring(timestamp, 4, 6))
        day   == parseInt(substring(timestamp, 6, 8))
        snapshotTime == DateDays(year, IF month = NaN THEN NaN ELSE month - 1, day)
        monthsAgo == (today - snapshotTime) \div 30
    IN  IF snapshotTime = NaN THEN "historical"
        ELSE IF monthsAgo < 2 THEN "recent"
        ELSE IF monthsAgo < 6 THEN "moderate"
        ELSE IF monthsAgo < 12 THEN "significant"
        ELSE IF monthsAgo < 24 THEN "major"
        ELSE "historical"

\* the function with Math.ceil in place of Math.floor
determineChangeTypeCeil(timestamp, today) ==
    LET year  == parseInt(substring(timestamp, 0, 4))
        month == parseInt(substring(timestamp, 4, 6))
        day   == parseInt(substring(timestamp, 6, 8))
        snapshotTime == DateDays(year, IF month = NaN THEN NaN ELSE month - 1, day)
        monthsAgo == 0 - ((snapshotTime - today) \div 30)
    IN  IF snapshotTime = NaN THEN "historical"
        ELSE IF monthsAgo <= 2 THEN "recent"
        ELSE IF monthsAgo <= 6 THEN "moderate"
        ELSE IF monthsAgo <= 12 THEN "significant"
        ELSE IF monthsAgo <= 24 THEN "major"
        ELSE "historical"

\* determineChangeType(timestamp) at local day number today. The division
\* of the millisecond difference by 30 days, floored, is the floored
\* division of the whole-day difference by 30.
determineChangeType(timestamp, today) ==
    LET year  == parseInt(substring(timestamp, 0, 4))
        month == parseInt(substring(timestamp, 4, 6))
        day   == parseInt(substring(timestamp, 6, 8))
        snapshotTime == DateDays(year, IF month = NaN THEN NaN ELSE month - 1, day)
        monthsAgo == (today - snapshotTime) \div 30
    IN  IF snapshotTime = NaN THEN "historical"
        ELSE IF monthsAgo <= 2 THEN "recent"
        ELSE IF monthsAgo <= 6 THEN "moderate"
        ELSE IF monthsAgo <= 12 THEN "significant"
        ELSE IF monthsAgo <= 24 THEN "major"
        ELSE "historical"

\* ------------------------------------------------------------------------
\* JavaScript values, and the text of a CDX response
\* ------------------------------------------------------------------------
\* the values JSON.parse can return
JStr(s)  == [k |-> "str", s |-> s]
JNum(s)  == [k |-> "num", s |-> s]
JNull    == [k |-> "null"]
JObj     == [k |-> "obj"]
JArr(e)  == [k |-> "arr", e |-> e]

\* A line of text is a sequence of tokens: white space, a comma outside any
\* JSON value, a piece of text that is not JSON, or the text of one JSON
\* value (standing for the value it parses to).
WS    == [k |-> "ws"]
COMMA == [k |-> "comma"]
JUNK  == [k |-> "junk"]

IsJsonToken(t) == t.k \in {"str", "num", "null", "obj", "arr"}

\* String.prototype.trim on one line
RECURSIVE TrimLeft(_)
TrimLeft(l) == IF l # <<>> /\ l[1] = WS THEN TrimLeft(Tail(l)) ELSE l

RECURSIVE TrimRight(_)
TrimRight(l) ==
    IF l # <<>> /\ l[Len(l)] = WS THEN TrimRight(SubSeq(l, 1, Len(l) - 1)) ELSE l

trim(l) == TrimRight(TrimLeft(l))

\* line.replace(/,$/, ''): removes one comma at the very end
StripTrailingComma(l) ==
    IF l # <<>> /\ l[Len(l)] = COMMA THEN SubSeq(l, 1, Len(l) - 1) ELSE l

IsBlankLine(l) == trim(l) = <<>>

\* textContent.trim().split('\n') on a text given as its lines: the white
\* space at both ends of the text goes, line breaks included; the result is
\* <<>> when the trimmed text is the empty string
RECURSIVE DropLeadingBlank(_)
DropLeadingBlank(ls) ==
    IF ls # <<>> /\ IsBlankLine(ls[1]) THEN DropLeadingBlank(Tail(ls)) ELSE ls

RECURSIVE DropTrailingBlank(_)
DropTrailingBlank(ls) ==
    IF ls # <<>> /\ IsBlankLine(ls[Len(ls)])
    THEN DropTrailingBlank(SubSeq(ls, 1, Len(ls) - 1)) ELSE ls

TrimSplit(text) ==
    LET ls == DropTrailingBlank(DropLeadingBlank(text))
    IN  [i \in 1..Len(ls) |->
            LET a == IF i = 1 THEN TrimLeft(ls[i]) ELSE ls[i]
            IN  IF i = Len(ls) THEN TrimRight(a) ELSE a]

\* JSON.parse(line): white space around the value is allowed, anything else
\* around it is a SyntaxError
NonWs(l) == SelectSeq(l, LAMBDA t : t # WS)

JsonParses(l) == Len(NonWs(l)) = 1 /\ IsJsonToken(NonWs(l)[1])

JsonParse(l) == NonWs(l)[1]

\* String(v) as a template literal computes it
RECURSIVE ToStringJS(_)
ToStringJS(v) ==
    CASE v.k = "str"  -> v.s
      [] v.k = "num"  -> v.s
      [] v.k = "null" -> <<"n", "u", "l", "l">>
      [] v.k = "obj"  -> <<"[object Object]">>
      [] v.k = "arr"  ->
           LET RECURSIVE Join(_)
               Join(n) ==
                   IF n = 0 THEN <<>>
                   ELSE (IF n = 1 THEN <<>> ELSE Join(n - 1) \o <<",">>)
                        \o (IF v.e[n].k = "null" THEN <<>> ELSE ToStringJS(v.e[n]))
           IN  Join(Len(v.e))

\* ------------------------------------------------------------------------
\* The CDX line parser (the loop over lines[1..] of the handler)
\* ------------------------------------------------------------------------
Status200  == <<"2", "0", "0">>
Status301  == <<"3", "0", "1">>
StatusDash == <<"-">>

ArchiveBase == <<"https://web.archive.org/web/">>

\* data.length: a number for arrays and strings, undefined otherwise
HasLength(data) == data.k \in {"arr", "str"}

LengthOf(data) == IF data.k = "arr" THEN Len(data.e) ELSE Len(data.s)

\* data[i] as array destructuring reads it: an element of the array, or a
\* one-character string of the string
ElementOf(data, i) == IF data.k = "arr" THEN data.e[i] ELSE JStr(<<data.s[i]>>)

\* One pass of the loop body for the raw line. threw says that the body
\* left through its catch clause, recs holds the record pushed, if any.
\* determineChangeType calls timestamp.substring, a TypeError unless the
\* timestamp is a string; data.length is a TypeError when data is null.
parseLine(raw, today) ==
    LET line == StripTrailingComma(trim(raw))
        skip == [threw |-> FALSE, recs |-> <<>>]
        fail == [threw |-> TRUE, recs |-> <<>>]
    IN  IF line = <<>> THEN skip
        ELSE IF ~JsonParses(line) THEN fail
        ELSE LET data == JsonParse(line)
             IN  IF data.k = "null" THEN fail
                 ELSE IF ~HasLength(data) THEN skip
                 ELSE IF ~(LengthOf(data) >= 3) THEN skip
                 ELSE LET timestamp   == ElementOf(data, 1)
                          originalUrl == ElementOf(data, 2)
                          statusCode  == ElementOf(data, 3)
                      IN  IF ~(statusCode \in {JStr(Status200), JStr(Status301),
                                               JStr(StatusDash)})
                          THEN skip
                          ELSE IF timestamp.k # "str" THEN fail
                          ELSE [threw |-> FALSE,
                                recs  |-> << [timestamp  |-> timestamp.s,
                                              url        |-> originalUrl,
                                              statusCode |-> statusCode.s,
                                              archiveUrl |-> ArchiveBase
                                                  \o ToStringJS(timestamp) \o <<"/">>
                                                  \o ToStringJS(originalUrl),
                                              changeType |->
                                                  determineChangeType(timestamp.s, today)] >>]

\* the records pushed by the loop body over the lines at positions lo..hi
\* of the sequence, in order; a line that throws is logged and the loop
\* continues, so the records of a range are those of its two halves
RECURSIVE ParseRange(_, _, _, _)
ParseRange(lines, lo, hi, today) ==
    IF lo > hi THEN <<>>
    ELSE IF lo = hi THEN parseLine(lines[lo], today).recs
    ELSE LET mid == (lo + hi) \div 2
         IN  ParseRange(lines, lo, mid, today) \o ParseRange(lines, mid + 1, hi, today)

\* the loop below with a catch clause that leaves the loop at the first line
\* that throws
parseSnapshotsAbortOnError(lines, today) ==
    LET throwing == { i \in 2..Len(lines) : parseLine(lines[i], today).threw }
        last == IF throwing = {} THEN Len(lines)
                ELSE (CHOOSE i \in throwing : \A j \in throwing : i <= j) - 1
    IN  ParseRange(lines, 2, last, today)

\* the snapshots array built from the lines of one response by
\* for (let i = 1; i < lines.length; i++): position 2 of the sequence is
\* lines[1]
parseSnapshots(lines, today) == ParseRange(lines, 2, Len(lines), today)

\* ------------------------------------------------------------------------
\* Sort, same-month filter and slice
\* ------------------------------------------------------------------------
\* the comparator below with its operands exchanged: oldest first
compareSnapshotsAscending(a, b) == localeCompare(a.timestamp, b.timestamp)

\* the comparator (a, b) => b.timestamp.localeCompare(a.timestamp)
compareSnapshots(a, b) == localeCompare(b.timestamp, a.timestamp)

\* the sequence <<f[lo], ..., f[hi]>>
RECURSIVE Tabulate(_, _, _)
Tabulate(f, lo, hi) ==
    IF lo > hi THEN <<>>
    ELSE IF lo = hi THEN <<f[lo]>>
    ELSE LET mid == (lo + hi) \div 2
         IN  Tabulate(f, lo, mid) \o Tabulate(f, mid + 1, hi)

\* Array.prototype.sort is stable: the element at position i ends up after
\* the elements that compare less than it and after the elements before
\* it that compare equal to it
sortSnapshots(arr) ==
    LET n == Len(arr)
        Before(j, i) ==
            \/ compareSnapshots(arr[j], arr[i]) < 0
            \/ compareSnapshots(arr[j], arr[i]) = 0 /\ j < i
        rank == Tabulate([i \in 1..n |-> Cardinality({j \in 1..n : Before(j, i)}) + 1],
                         1, n)
    IN  Tabulate([p \in 1..n |-> arr[CHOOSE i \in 1..n : rank[i] = p]], 1, n)

\* the prefix below taken two characters too long: the day, not the month
yearMonthOfDay(snapshot) == substring(snapshot.timestamp, 0, 8)

yearMonthOf(snapshot) == substring(snapshot.timestamp, 0, 6)

\* arr.findIndex(s => s.timestamp.substring(0, 6) === yearMonth), 1-based
findIndex(arr, yearMonth) ==
    CHOOSE i \in 1..Len(arr) :
        /\ yearMonthOf(arr[i]) = yearMonth
        /\ \A j \in 1..(i - 1) : yearMonthOf(arr[j]) # yearMonth

\* the elements at positions lo..hi that the filter callback keeps
RECURSIVE FilterRange(_, _, _)
FilterRange(arr, lo, hi) ==
    IF lo > hi THEN <<>>
    ELSE IF lo = hi
    THEN (IF findIndex(arr, yearMonthOf(arr[lo])) = lo THEN <<arr[lo]>> ELSE <<>>)
    ELSE LET mid == (lo + hi) \div 2
         IN  FilterRange(arr, lo, mid) \o FilterRange(arr, mid + 1, hi)

\* allSnapshots.filter(... findIndex(...) === index)
filterUnique(arr) == FilterRange(arr, 1, Len(arr))

\* the slice below with an end index one too large
sliceFinalOffByOne(unique) == SubSeq(unique, 1, Min(MaxSnapshots + 1, Len(unique)))

\* uniqueSnapshots.slice(0, 50)
sliceFinal(unique) == SubSeq(unique, 1, Min(MaxSnapshots, Len(unique)))

\* ------------------------------------------------------------------------
\* generateUrlVariants
\* ------------------------------------------------------------------------
\* A URL string is a sequence of tokens: a scheme ("https:"), "//", the
\* labels of the host name ("www." and a registered name that does not
\* start with "www."), and a path (with its query). Two URL strings are
\* equal exactly when their token sequences are.
Schemes == {"https:", "http:"}
Paths   == {"/", "/products"}
Names   == {"example.com"}

IsHostToken(t) == t = "www." \/ t \in Names

\* new URL(url) succeeds: scheme, "//", a host name, an optional path
UrlParses(u) ==
    /\ Len(u) >= 3
    /\ u[1] \in Schemes
    /\ u[2] = "//"
    /\ \E n \in 3..Len(u) :
          /\ \A i \in 3..(n - 1) : u[i] = "www."
          /\ u[n] \in Names
          /\ \/ n = Len(u)
             \/ n + 1 = Len(u) /\ u[n + 1] \in Paths

\* the parsed URL: protocol, hostname, pathname + search ("/" when the
\* string has no path)
UrlParse(u) ==
    LET n == CHOOSE n \in 3..Len(u) : u[n] \in Names
    IN  [protocol |-> u[1],
         hostname |-> SubSeq(u, 3, n),
         path     |-> IF n = Len(u) THEN <<"/">> ELSE <<u[n + 1]>>]

\* the spread of the array itself, without the Set: every entry is kept
KeepDuplicates(s, n) == SubSeq(s, 1, n)

\* [...new Set(variants)]: the first occurrence of each entry, in order
RECURSIVE UniqueUpTo(_, _)
UniqueUpTo(s, n) ==
    IF n = 0 THEN <<>>
    ELSE LET before == UniqueUpTo(s, n - 1)
         IN  IF \E j \in 1..(n - 1) : s[j] = s[n] THEN before ELSE Append(before, s[n])

\* the function without its try block around new URL: nothing is returned
\* for a string that does not parse
generateUrlVariantsNoCatch(u) ==
    IF ~UrlParses(u) THEN <<>> ELSE <<u>>

\* the function with the last push of each branch on the host left out
generateUrlVariantsNoBareHost(u) ==
    IF ~UrlParses(u) THEN <<u>>
    ELSE LET urlObj == UrlParse(u)
             domain == urlObj.hostname
             path   == urlObj.path
             proto  == <<urlObj.protocol, "//">>
             wwwPart ==
                 IF domain[1] = "www."
                 THEN << proto \o Tail(domain) \o path, Tail(domain) \o path >>
                 ELSE << proto \o <<"www.">> \o domain \o path,
                         <<"www.">> \o domain \o path >>
             variants == <<u>> \o wwwPart \o << domain \o path, domain >>
         IN  UniqueUpTo(variants, Len(variants))

generateUrlVariants(u) ==
    IF ~UrlParses(u) THEN <<u>>
    ELSE LET urlObj == UrlParse(u)
             domain == urlObj.hostname
             path   == urlObj.path
             proto  == <<urlObj.protocol, "//">>
             wwwPart ==
                 IF domain[1] = "www."
                 THEN LET withoutWww == Tail(domain)
                      IN  << proto \o withoutWww \o path,
                             withoutWww \o path,
                             withoutWww >>
                 ELSE << proto \o <<"www.">> \o domain \o path,
                         <<"www.">> \o domain \o path,
                         <<"www.">> \o domain >>
             noProtocol == << domain \o path, domain >>
             noPath == IF path # <<"/">> /\ path # <<>>
                       THEN << proto \o domain, domain >>
                       ELSE <<>>
             variants == <<u>> \o wwwPart \o noProtocol \o noPath
         IN  UniqueUpTo(variants, Len(variants))

\* ------------------------------------------------------------------------
\* detectABTests
\* ------------------------------------------------------------------------
\* formatDate(timestamp) of the analysis: 'Unknown' for the empty string
formatDate(timestamp) ==
    IF timestamp = <<>> THEN <<"Unknown">>
    ELSE substring(timestamp, 0, 4) \o <<"/">> \o substring(timestamp, 4, 6)
         \o <<"/">> \o substring(timestamp, 6, 8)

\* the sort below with its comparison reversed: newest first
sortedSnapshotsDescending(snapshots) ==
    LET n == Len(snapshots)
        Before(j, i) ==
            \/ localeCompare(snapshots[i].timestamp, snapshots[j].timestamp) < 0
            \/ localeCompare(snapshots[i].timestamp, snapshots[j].timestamp) = 0 /\ j < i
        rank == Tabulate([i \in 1..n |-> Cardinality({j \in 1..n : Before(j, i)}) + 1],
                         1, n)
    IN  Tabulate([p \in 1..n |-> snapshots[CHOOSE i \in 1..n : rank[i] = p]], 1, n)

\* snapshots.sort((a, b) => a.timestamp.localeCompare(b.timestamp)): the
\* stable sort, oldest first
sortedSnapshots(snapshots) ==
    LET n == Len(snapshots)
        Before(j, i) ==
            \/ localeCompare(snapshots[j].timestamp, snapshots[i].timestamp) < 0
            \/ localeCompare(snapshots[j].timestamp, snapshots[i].timestamp) = 0 /\ j < i
        rank == Tabulate([i \in 1..n |-> Cardinality({j \in 1..n : Before(j, i)}) + 1],
                         1, n)
    IN  Tabulate([p \in 1..n |-> snapshots[CHOOSE i \in 1..n : rank[i] = p]], 1, n)

\* parseInt(timestamp) is a number of up to 14 digits. It is kept as the
\* pair of the number its last six digits spell and the number the digits
\* before them spell: parseInt(timestamp) = high * 1000000 + low.
HighPart(timestamp) ==
    LET ds == LeadingDigits(timestamp)
    IN  IF Len(ds) > 6 THEN DigitsValue(SubSeq(ds, 1, Len(ds) - 6)) ELSE 0

LowPart(timestamp) ==
    LET ds == LeadingDigits(timestamp)
    IN  IF Len(ds) > 6 THEN DigitsValue(SubSeq(ds, Len(ds) - 5, Len(ds)))
        ELSE DigitsValue(ds)

\* Math.floor((currentTime - previousTime) / 1000000); NaN when parseInt of
\* either timestamp is NaN
daysDiffOf(current, previous) ==
    IF LeadingDigits(current.timestamp) = <<>> \/ LeadingDigits(previous.timestamp) = <<>>
    THEN NaN
    ELSE (HighPart(current.timestamp) - HighPart(previous.timestamp))
         + ((LowPart(current.timestamp) - LowPart(previous.timestamp)) \div 1000000)

\* daysDiff < k: false when daysDiff is NaN
LessThan(daysDiff, k) == daysDiff # NaN /\ daysDiff < k

\* the comparisons below with <= in place of <
baseTestInclusive(daysDiff) ==
    IF daysDiff # NaN /\ daysDiff <= 30 THEN [testType |-> "rapid_iteration", confidence |-> 85]
    ELSE IF daysDiff # NaN /\ daysDiff <= 90
    THEN [testType |-> "monthly_optimization", confidence |-> 70]
    ELSE IF daysDiff # NaN /\ daysDiff <= 180
    THEN [testType |-> "seasonal_update", confidence |-> 60]
    ELSE [testType |-> "unknown", confidence |-> 50]

\* the type and confidence the duration gives
baseTest(daysDiff) ==
    IF LessThan(daysDiff, 30) THEN [testType |-> "rapid_iteration", confidence |-> 85]
    ELSE IF LessThan(daysDiff, 90) THEN [testType |-> "monthly_optimization", confidence |-> 70]
    ELSE IF LessThan(daysDiff, 180) THEN [testType |-> "seasonal_update", confidence |-> 60]
    ELSE [testType |-> "unknown", confidence |-> 50]

\* the switch below with the label historical taken for redesign
adjustedTestHistoricalRedesign(base, changeType) ==
    IF changeType = "recent"
    THEN [testType |-> "continuous_optimization", confidence |-> base.confidence + 10]
    ELSE IF changeType = "significant"
    THEN [testType |-> "major_ab_test", confidence |-> base.confidence + 15]
    ELSE IF changeType \in {"redesign", "historical"}
    THEN [testType |-> "full_redesign", confidence |-> base.confidence + 20]
    ELSE base

\* the switch on current.changeType; a record without a changeType has ""
adjustedTest(base, changeType) ==
    IF changeType = "recent"
    THEN [testType |-> "continuous_optimization", confidence |-> base.confidence + 10]
    ELSE IF changeType = "significant"
    THEN [testType |-> "major_ab_test", confidence |-> base.confidence + 15]
    ELSE IF changeType = "redesign"
    THEN [testType |-> "full_redesign", confidence |-> base.confidence + 20]
    ELSE base

\* the confidence pushed as it is
unclippedConfidence(confidence) == confidence

\* Math.min(95, confidence)
clippedConfidence(confidence) == Min(95, confidence)

estimatedImpactOf(daysDiff) ==
    IF LessThan(daysDiff, 30) THEN "high"
    ELSE IF LessThan(daysDiff, 90) THEN "medium"
    ELSE "low"

\* the object pushed for the pair sortedSnapshots[i - 1], sortedSnapshots[i]
testOfPair(previous, current) ==
    LET daysDiff == daysDiffOf(current, previous)
        test == adjustedTest(baseTest(daysDiff), current.changeType)
    IN  [period          |-> formatDate(previous.timestamp) \o <<" ", "-", " ">>
                             \o formatDate(current.timestamp),
         type            |-> test.testType,
         confidence      |-> clippedConfidence(test.confidence),
         daysDuration    |-> daysDiff,
         snapshots       |-> <<previous, current>>,
         estimatedImpact |-> estimatedImpactOf(daysDiff)]

\* tests.slice(0, 3)
sliceTests(tests) == SubSeq(tests, 1, Min(3, Len(tests)))

\* detectABTests(snapshots): one test for each pair of neighbours of the
\* sorted array, of which the slice is returned
detectABTests(snapshots) ==
    IF Len(snapshots) < 2 THEN <<>>
    ELSE LET sorted == sortedSnapshots(snapshots)
             tests == [i \in 1..(Len(sorted) - 1) |-> testOfPair(sorted[i], sorted[i + 1])]
         IN  sliceTests(tests)

\* ------------------------------------------------------------------------
\* Inputs of the model
\* ------------------------------------------------------------------------
\* timestamp YYYYMMDD000000 spelled digit by digit
TwoDigits(n) == <<DigitChar[(n \div 10) + 1], DigitChar[(n % 10) + 1]>>

TimestampOf(y, m, d) ==
    TwoDigits(y \div 100) \o TwoDigits(y % 100) \o TwoDigits(m) \o TwoDigits(d)
    \o <<"0", "0", "0", "0", "0", "0">>

TsJanFirst  == TimestampOf(2023, 1, 1)
TsJanLater  == TimestampOf(2023, 1, 20)
TsDecember  == TimestampOf(2022, 12, 15)
TsTooShort  == <<"2", "0", "2", "3">>

PageUrl  == JStr(<<"http://x.com/">>)
OtherUrl == JStr(<<"http://x.com/a">>)

RecordLine(ts, u, status) == JArr(<<JStr(ts), u, JStr(status)>>)

\* the lines a small response body is made of
LinePool ==
    { <<WS>>,
      <<RecordLine(TsJanFirst, PageUrl, Status200), COMMA>>,
      <<WS, RecordLine(TsJanLater, OtherUrl, Status301), WS>>,
      <<RecordLine(TsDecember, PageUrl, StatusDash)>>,
      <<RecordLine(TsJanLater, PageUrl, <<"4", "0", "4">>), COMMA>>,
      <<JArr(<<JStr(TsJanFirst), PageUrl>>)>>,
      <<JUNK>>,
      <<RecordLine(TsDecember, PageUrl, Status200), COMMA, COMMA>>,
      <<JArr(<<JNum(TsJanFirst), PageUrl, JStr(Status200)>>), COMMA>>,
      <<RecordLine(TsTooShort, PageUrl, Status200)>>,
      <<JStr(<<"2", "0", "-">>)>>,
      <<JNull>> }

SmallTexts == UNION { [1..n -> LinePool] : n \in 0..MaxLines }

\* a large body: a header line, then one capture on the 15th of each of
\* BigMonths consecutive months from January 2019, oldest first, then a
\* capture on the 20th of the first ExtraCaptures of those months
HeaderLine ==
    <<JArr(<<JStr(<<"timestamp">>), JStr(<<"original">>), JStr(<<"statuscode">>)>>), COMMA>>

MonthLine(n, d, u) ==
    <<RecordLine(TimestampOf(2019 + (n \div 12), (n % 12) + 1, d), u, Status200), COMMA>>

BigText ==
    [i \in 1..(1 + BigMonths + ExtraCaptures) |->
        IF i = 1 THEN HeaderLine
        ELSE IF i <= 1 + BigMonths THEN MonthLine(i - 2, 15, PageUrl)
        ELSE MonthLine(i - 2 - BigMonths, 20, OtherUrl)]

\* the header and the first 5, 6, 15 or 16 captures of the large body: the
\* record counts on either side of the bounds of analysisQuality
BoundaryTexts == { SubSeq(BigText, 1, 1 + n) : n \in {5, 6, 15, 16} }

Texts == SmallTexts \cup {BigText} \cup BoundaryTexts

\* the URLs a request is made for: one that new URL rejects, one it parses
UrlInputs == { <<"example.com">>,
               <<"https:", "//", "www.", "example.com", "/">> }

\* the local day a request runs on: 1 March 2023
Todays == { MakeDay(2023, 2, 1) }

\* the requests of a behaviour
Requests == {1}

\* ------------------------------------------------------------------------
\* The handler of GET /api/wayback-snapshots/:url
\* ------------------------------------------------------------------------
VARIABLES
    today,            \* the local day new Date() falls on
    url,              \* req.params.url
    pc,               \* where the handler of each request stands
    browser,          \* "none", "open" or "closed"
    urlVariants,      \* const urlVariants
    idx,              \* position of the for-of loop in urlVariants
    allSnapshots,     \* let allSnapshots
    successfulUrl,    \* let successfulUrl: <<>> for null, <<u>> otherwise
    uniqueSnapshots,  \* const uniqueSnapshots
    response,         \* <<>> until the response is sent, then <<response>>
    attempts,         \* history: the variants queried, with the records found
    lastOutcome,      \* history: how the latest attempt ended
    failedBefore,     \* history: an attempt of the request has failed
    lastText,         \* history: <<text>> after the last textContent held text
    analysisPc,       \* where performAdvancedAnalysis of the page stands
    waybackInfo,      \* const waybackInfo: <<>> until the fetch has resolved
    abTests,          \* const abTests: <<>> until detectABTests has returned
    pageSnapshots,    \* the prop snapshots of TimelineComparison
    selectedSnapshots, \* useState<number[]>([])
    sortOrder,        \* useState('asc')
    filterType,       \* useState('all')
    searchTerm,       \* useState('')
    diffProps,        \* the props of CodeDiffViewer: <<>> while not mounted
    fetchCalls,       \* the calls of fetchAndCompare, awaiting or done
    diffSections,     \* useState<DiffSection[]>([])
    isLoading         \* useState(false)

\* the variables of the analysis of the front end
analysis == <<analysisPc, waybackInfo, abTests>>

\* the variables of the timeline view
timeline == <<pageSnapshots, selectedSnapshots, sortOrder, filterType, searchTerm>>

\* the variables of the code comparison
diffViewer == <<diffProps, fetchCalls, diffSections, isLoading>>

frontend == <<analysis, timeline, diffViewer>>

vars == <<today, url, pc, browser, urlVariants, idx, allSnapshots, successfulUrl,
          uniqueSnapshots, response, attempts, lastOutcome, failedBefore, lastText,
          analysisPc, waybackInfo, abTests, pageSnapshots, selectedSnapshots,
          sortOrder, filterType, searchTerm, diffProps, fetchCalls, diffSections,
          isLoading>>

\* the timeline view is not mounted
TimelineIdle ==
    /\ pageSnapshots = <<>>
    /\ selectedSnapshots = <<>>
    /\ sortOrder = "asc"
    /\ filterType = "all"
    /\ searchTerm = <<>>

\* the code comparison is not mounted
DiffViewerIdle ==
    /\ diffProps = <<>>
    /\ fetchCalls = <<>>
    /\ diffSections = <<>>
    /\ isLoading = FALSE

\* no analysis has been started
AnalysisIdle ==
    /\ analysisPc = "idle"
    /\ waybackInfo = <<>>
    /\ abTests = <<>>

\* no component of the front end is in use
FrontendIdle ==
    /\ AnalysisIdle
    /\ TimelineIdle
    /\ DiffViewerIdle

Init ==
    /\ today \in Todays
    /\ url \in [Requests -> UrlInputs]
    /\ pc = [r \in Requests |-> "launch"]
    /\ browser = [r \in Requests |-> "none"]
    /\ urlVariants = [r \in Requests |-> <<>>]
    /\ idx = [r \in Requests |-> 0]
    /\ allSnapshots = [r \in Requests |-> <<>>]
    /\ successfulUrl = [r \in Requests |-> <<>>]
    /\ uniqueSnapshots = [r \in Requests |-> <<>>]
    /\ response = [r \in Requests |-> <<>>]
    /\ attempts = [r \in Requests |-> <<>>]
    /\ lastOutcome = [r \in Requests |-> "none"]
    /\ failedBefore = [r \in Requests |-> FALSE]
    /\ lastText = [r \in Requests |-> <<>>]
    /\ FrontendIdle

\* the expression below with the lower bound one too high
analysisQualityOverSix(n) == IF n > 15 THEN "high" ELSE IF n > 6 THEN "medium" ELSE "low"

\* finalSnapshots.length > 15 ? 'high' : finalSnapshots.length > 5 ? 'medium' : 'low'
analysisQuality(n) == IF n > 15 THEN "high" ELSE IF n > 5 THEN "medium" ELSE "low"

\* res.json({... dataSource: 'wayback_api_no_data'})
NoDataResponse(u) ==
    [status |-> 200, url |-> u, available |-> FALSE, historicalSnapshots |-> <<>>,
     analysisQuality |-> "low", dataSource |-> "wayback_api_no_data",
     successfulUrl |-> <<>>, error |-> FALSE]

\* res.json({... dataSource: 'wayback_api_playwright'})
SuccessResponse(u, finalSnapshots, succ) ==
    [status |-> 200, url |-> u, available |-> Len(finalSnapshots) > 0,
     historicalSnapshots |-> finalSnapshots,
     analysisQuality |-> analysisQuality(Len(finalSnapshots)),
     dataSource |-> "wayback_api_playwright",
     successfulUrl |-> succ, error |-> FALSE]

\* res.status(500).json({... dataSource: 'error'})
ErrorResponse(u) ==
    [status |-> 500, url |-> u, available |-> FALSE, historicalSnapshots |-> <<>>,
     analysisQuality |-> "low", dataSource |-> "error",
     successfulUrl |-> <<>>, error |-> TRUE]

\* the outer catch clause only logging: the request ends without a response
CatchWithoutResponse(r) ==
    /\ response' = response
    /\ pc' = [pc EXCEPT ![r] = "done"]

\* the outer catch clause: the error response ends the request
Catch(r) ==
    /\ response' = [response EXCEPT ![r] = <<ErrorResponse(url[r])>>]
    /\ pc' = [pc EXCEPT ![r] = "done"]

\* await chromium.launch(...) resolves
LaunchOk(r) ==
    /\ pc[r] = "launch"
    /\ browser' = [browser EXCEPT ![r] = "open"]
    /\ pc' = [pc EXCEPT ![r] = "newPage"]
    /\ UNCHANGED <<today, url, urlVariants, idx, allSnapshots, successfulUrl,
                   uniqueSnapshots, response, attempts, lastOutcome, failedBefore, lastText>>
    /\ UNCHANGED frontend

\* await chromium.launch(...) rejects
LaunchFails(r) ==
    /\ pc[r] = "launch"
    /\ Catch(r)
    /\ UNCHANGED <<today, url, browser, urlVariants, idx, allSnapshots, successfulUrl,
                   uniqueSnapshots, attempts, lastOutcome, failedBefore, lastText>>
    /\ UNCHANGED frontend

\* await browser.newPage() resolves; the variants are generated and the
\* loop is entered
NewPageOk(r) ==
    /\ pc[r] = "newPage"
    /\ urlVariants' = [urlVariants EXCEPT ![r] = generateUrlVariants(url[r])]
    /\ allSnapshots' = [allSnapshots EXCEPT ![r] = <<>>]
    /\ successfulUrl' = [successfulUrl EXCEPT ![r] = <<>>]
    /\ idx' = [idx EXCEPT ![r] = 1]
    /\ pc' = [pc EXCEPT ![r] = "loop"]
    /\ UNCHANGED <<today, url, browser, uniqueSnapshots, response, attempts, lastOutcome,
                   failedBefore, lastText>>
    /\ UNCHANGED frontend

\* await browser.newPage() rejects
NewPageFails(r) ==
    /\ pc[r] = "newPage"
    /\ Catch(r)
    /\ UNCHANGED <<today, url, browser, urlVariants, idx, allSnapshots, successfulUrl,
                   uniqueSnapshots, attempts, lastOutcome, failedBefore, lastText>>
    /\ UNCHANGED frontend

\* the head of for (const testUrl of urlVariants): the next variant is
\* taken and page.goto is called for it, or the loop is over
LoopHead(r) ==
    /\ pc[r] = "loop"
    /\ IF idx[r] <= Len(urlVariants[r])
       THEN /\ pc' = [pc EXCEPT ![r] = "goto"]
            /\ attempts' = [attempts EXCEPT ![r] =
                   Append(@, [variant   |-> urlVariants[r][idx[r]],
                              snapshots |-> <<>>])]
            /\ lastOutcome' = [lastOutcome EXCEPT ![r] = "pending"]
       ELSE /\ pc' = [pc EXCEPT ![r] = "close"]
            /\ UNCHANGED <<attempts, lastOutcome>>
    /\ lastText' = [lastText EXCEPT ![r] = <<>>]
    /\ UNCHANGED failedBefore
    /\ UNCHANGED <<today, url, browser, urlVariants, idx, allSnapshots, successfulUrl,
                   uniqueSnapshots, response>>
    /\ UNCHANGED frontend

\* the records of the attempt in progress are recorded
SetSnapshots(att, sn) ==
    [att EXCEPT ![Len(att)] = [variant |-> att[Len(att)].variant, snapshots |-> sn]]

\* the ways one variant can fail: page.goto rejects (timeout, transport
\* error), the status is not 2xx, textContent rejects, the body is empty,
\* the body holds a header line only
FailureOutcomes == {"goto_threw", "not_ok", "text_threw", "empty", "header_only"}

\* the inner catch clause rethrowing: the failure reaches the outer catch
NextVariantRethrows(r, o) ==
    /\ Catch(r)
    /\ lastOutcome' = [lastOutcome EXCEPT ![r] = o]
    /\ failedBefore' = [failedBefore EXCEPT ![r] = @ \/ o \in FailureOutcomes]
    /\ UNCHANGED <<idx, allSnapshots, successfulUrl, attempts>>

\* continue taking the same variant again: a failed variant is retried
NextVariantRetries(r, o) ==
    /\ idx' = idx
    /\ pc' = [pc EXCEPT ![r] = "loop"]
    /\ lastOutcome' = [lastOutcome EXCEPT ![r] = o]
    /\ failedBefore' = [failedBefore EXCEPT ![r] = @ \/ o \in FailureOutcomes]
    /\ UNCHANGED <<allSnapshots, successfulUrl, response, attempts>>

\* continue, or the end of the loop body: on to the next variant
NextVariant(r, o) ==
    /\ idx' = [idx EXCEPT ![r] = @ + 1]
    /\ pc' = [pc EXCEPT ![r] = "loop"]
    /\ lastOutcome' = [lastOutcome EXCEPT ![r] = o]
    /\ failedBefore' = [failedBefore EXCEPT ![r] = @ \/ o \in FailureOutcomes]
    /\ UNCHANGED <<allSnapshots, successfulUrl, response, attempts>>

\* the branch below without its break: the loop goes on to the next variant
FoundSnapshotsNoBreak(r, snapshots) ==
    /\ allSnapshots' = [allSnapshots EXCEPT ![r] = @ \o snapshots]
    /\ successfulUrl' = [successfulUrl EXCEPT ![r] = <<urlVariants[r][idx[r]]>>]
    /\ attempts' = [attempts EXCEPT ![r] = SetSnapshots(@, snapshots)]
    /\ lastOutcome' = [lastOutcome EXCEPT ![r] = "found"]
    /\ UNCHANGED failedBefore
    /\ idx' = [idx EXCEPT ![r] = @ + 1]
    /\ pc' = [pc EXCEPT ![r] = "loop"]
    /\ UNCHANGED response

\* the branch below reporting the requested URL instead of the variant
FoundSnapshotsReportsUrl(r, snapshots) ==
    /\ allSnapshots' = [allSnapshots EXCEPT ![r] = @ \o snapshots]
    /\ successfulUrl' = [successfulUrl EXCEPT ![r] = <<url[r]>>]
    /\ attempts' = [attempts EXCEPT ![r] = SetSnapshots(@, snapshots)]
    /\ lastOutcome' = [lastOutcome EXCEPT ![r] = "found"]
    /\ UNCHANGED failedBefore
    /\ pc' = [pc EXCEPT ![r] = "close"]
    /\ UNCHANGED <<idx, response>>

\* the branch below with allSnapshots as a list of the module, shared by
\* the requests, instead of a variable of the handler
FoundSnapshotsShared(r, snapshots) ==
    /\ allSnapshots' = [q \in DOMAIN allSnapshots |-> allSnapshots[q] \o snapshots]
    /\ successfulUrl' = [successfulUrl EXCEPT ![r] = <<urlVariants[r][idx[r]]>>]
    /\ attempts' = [attempts EXCEPT ![r] = SetSnapshots(@, snapshots)]
    /\ lastOutcome' = [lastOutcome EXCEPT ![r] = "found"]
    /\ UNCHANGED failedBefore
    /\ pc' = [pc EXCEPT ![r] = "close"]
    /\ UNCHANGED <<idx, response>>

\* if (snapshots.length > 0) { concat; successfulUrl = testUrl; break }
FoundSnapshots(r, snapshots) ==
    /\ allSnapshots' = [allSnapshots EXCEPT ![r] = @ \o snapshots]
    /\ successfulUrl' = [successfulUrl EXCEPT ![r] = <<urlVariants[r][idx[r]]>>]
    /\ attempts' = [attempts EXCEPT ![r] = SetSnapshots(@, snapshots)]
    /\ lastOutcome' = [lastOutcome EXCEPT ![r] = "found"]
    /\ UNCHANGED failedBefore
    /\ pc' = [pc EXCEPT ![r] = "close"]
    /\ UNCHANGED <<idx, response>>

\* await page.goto(...) rejects (timeout, transport error) or resolves to
\* null, so that response.ok() throws: the inner catch clause continues
GotoThrows(r) ==
    /\ pc[r] = "goto"
    /\ NextVariant(r, "goto_threw")
    /\ UNCHANGED <<today, url, browser, urlVariants, uniqueSnapshots, lastText>>
    /\ UNCHANGED frontend

\* the response is not ok: continue
GotoNotOk(r) ==
    /\ pc[r] = "goto"
    /\ NextVariant(r, "not_ok")
    /\ UNCHANGED <<today, url, browser, urlVariants, uniqueSnapshots, lastText>>
    /\ UNCHANGED frontend

\* the response is ok: page.textContent('body') is awaited
GotoOk(r) ==
    /\ pc[r] = "goto"
    /\ pc' = [pc EXCEPT ![r] = "textContent"]
    /\ UNCHANGED <<today, url, browser, urlVariants, idx, allSnapshots, successfulUrl,
                   uniqueSnapshots, response, attempts, lastOutcome, failedBefore, lastText>>
    /\ UNCHANGED frontend

\* await page.textContent('body') rejects: the inner catch clause continues
TextContentThrows(r) ==
    /\ pc[r] = "textContent"
    /\ NextVariant(r, "text_threw")
    /\ UNCHANGED <<today, url, browser, urlVariants, uniqueSnapshots, lastText>>
    /\ UNCHANGED frontend

\* textContent is null: continue
TextContentNull(r) ==
    /\ pc[r] = "textContent"
    /\ NextVariant(r, "empty")
    /\ UNCHANGED <<today, url, browser, urlVariants, uniqueSnapshots, lastText>>
    /\ UNCHANGED frontend

\* textContent is a string: empty after trim, a header line only, or data
\* lines that are parsed
TextContentFrom(r, texts) ==
    /\ pc[r] = "textContent"
    /\ \E text \in texts :
          /\ lastText' = [lastText EXCEPT ![r] = <<text>>]
          /\ LET lines == TrimSplit(text)
             IN  IF lines = <<>> THEN NextVariant(r, "empty")
                 ELSE IF Len(lines) > 1
                 THEN LET snapshots == parseSnapshots(lines, today)
                      IN  IF Len(snapshots) > 0
                          THEN FoundSnapshots(r, snapshots)
                          ELSE NextVariant(r, "no_valid")
                 ELSE NextVariant(r, "header_only")
    /\ UNCHANGED <<today, url, browser, urlVariants, uniqueSnapshots>>
    /\ UNCHANGED frontend

\* await page.textContent('body') resolves to one of the bodies of the model
TextContentText(r) == TextContentFrom(r, Texts)

\* await browser.close() resolves; the rest of the handler runs to its
\* response: the no-data response, or sort, filter, slice and the success
\* response
CloseOk(r) ==
    /\ pc[r] = "close"
    /\ browser' = [browser EXCEPT ![r] = "closed"]
    /\ IF Len(allSnapshots[r]) = 0
       THEN /\ response' = [response EXCEPT ![r] = <<NoDataResponse(url[r])>>]
            /\ UNCHANGED <<allSnapshots, uniqueSnapshots>>
       ELSE LET sorted == sortSnapshots(allSnapshots[r])
                unique == filterUnique(sorted)
                finalSnapshots == sliceFinal(unique)
            IN  /\ allSnapshots' = [allSnapshots EXCEPT ![r] = sorted]
                /\ uniqueSnapshots' = [uniqueSnapshots EXCEPT ![r] = unique]
                /\ response' = [response EXCEPT ![r] =
                       <<SuccessResponse(url[r], finalSnapshots, successfulUrl[r])>>]
    /\ pc' = [pc EXCEPT ![r] = "done"]
    /\ UNCHANGED <<today, url, urlVariants, idx, successfulUrl, attempts, lastOutcome,
                   failedBefore, lastText>>
    /\ UNCHANGED frontend

\* await browser.close() rejects: the outer catch clause
CloseFails(r) ==
    /\ pc[r] = "close"
    /\ Catch(r)
    /\ UNCHANGED <<today, url, browser, urlVariants, idx, allSnapshots, successfulUrl,
                   uniqueSnapshots, attempts, lastOutcome, failedBefore, lastText>>
    /\ UNCHANGED frontend

Next ==
    \/ \E r \in DOMAIN pc : LaunchOk(r)
    \/ \E r \in DOMAIN pc : LaunchFails(r)
    \/ \E r \in DOMAIN pc : NewPageOk(r)
    \/ \E r \in DOMAIN pc : NewPageFails(r)
    \/ \E r \in DOMAIN pc : LoopHead(r)
    \/ \E r \in DOMAIN pc : GotoThrows(r)
    \/ \E r \in DOMAIN pc : GotoNotOk(r)
    \/ \E r \in DOMAIN pc : GotoOk(r)
    \/ \E r \in DOMAIN pc : TextContentThrows(r)
    \/ \E r \in DOMAIN pc : TextContentNull(r)
    \/ \E r \in DOMAIN pc : TextContentText(r)
    \/ \E r \in DOMAIN pc : CloseOk(r)
    \/ \E r \in DOMAIN pc : CloseFails(r)

Spec == Init /\ [][Next]_vars

\* ------------------------------------------------------------------------
\* The handler under fairness, with a few response bodies
\* ------------------------------------------------------------------------
\* an empty body, a header line only, a header and a line that does not
\* parse, one record, and two records of one month
FewTexts ==
    { <<>>,
      <<HeaderLine>>,
      <<HeaderLine, <<JUNK>>>>,
      <<HeaderLine, <<RecordLine(TsDecember, PageUrl, Status200)>>>>,
      <<HeaderLine, <<RecordLine(TsJanFirst, PageUrl, Status200), COMMA>>,
                    <<RecordLine(TsJanLater, OtherUrl, Status301)>>>> }

\* await page.textContent('body') resolves to one of the few bodies
TextContentFew(r) == TextContentFrom(r, FewTexts)

\* the steps of the handler of one request
HandlerStep(r) ==
    \/ LaunchOk(r) \/ LaunchFails(r)
    \/ NewPageOk(r) \/ NewPageFails(r)
    \/ LoopHead(r)
    \/ GotoThrows(r) \/ GotoNotOk(r) \/ GotoOk(r)
    \/ TextContentThrows(r) \/ TextContentNull(r) \/ TextContentFew(r)
    \/ CloseOk(r) \/ CloseFails(r)

FairNext ==
    \/ \E r \in DOMAIN pc : LaunchOk(r)
    \/ \E r \in DOMAIN pc : LaunchFails(r)
    \/ \E r \in DOMAIN pc : NewPageOk(r)
    \/ \E r \in DOMAIN pc : NewPageFails(r)
    \/ \E r \in DOMAIN pc : LoopHead(r)
    \/ \E r \in DOMAIN pc : GotoThrows(r)
    \/ \E r \in DOMAIN pc : GotoNotOk(r)
    \/ \E r \in DOMAIN pc : GotoOk(r)
    \/ \E r \in DOMAIN pc : TextContentThrows(r)
    \/ \E r \in DOMAIN pc : TextContentNull(r)
    \/ \E r \in DOMAIN pc : TextContentFew(r)
    \/ \E r \in DOMAIN pc : CloseOk(r)
    \/ \E r \in DOMAIN pc : CloseFails(r)

\* every awaited call of the handler settles: launch, newPage and close
\* resolve or reject, page.goto is bounded by its timeout and textContent
\* by the default timeout of the page, so a handler that can take a step
\* takes one
FairSpec == Init /\ [][FairNext]_vars /\ \A r \in Requests : WF_vars(HandlerStep(r))

\* ------------------------------------------------------------------------
\* Two requests at once: the handlers interleave at every awaited call
\* ------------------------------------------------------------------------
TwoRequests == {1, 2}

InitConcurrent ==
    /\ today \in Todays
    /\ url \in [TwoRequests -> UrlInputs]
    /\ pc = [r \in TwoRequests |-> "launch"]
    /\ browser = [r \in TwoRequests |-> "none"]
    /\ urlVariants = [r \in TwoRequests |-> <<>>]
    /\ idx = [r \in TwoRequests |-> 0]
    /\ allSnapshots = [r \in TwoRequests |-> <<>>]
    /\ successfulUrl = [r \in TwoRequests |-> <<>>]
    /\ uniqueSnapshots = [r \in TwoRequests |-> <<>>]
    /\ response = [r \in TwoRequests |-> <<>>]
    /\ attempts = [r \in TwoRequests |-> <<>>]
    /\ lastOutcome = [r \in TwoRequests |-> "none"]
    /\ failedBefore = [r \in TwoRequests |-> FALSE]
    /\ lastText = [r \in TwoRequests |-> <<>>]
    /\ FrontendIdle

ConcurrentSpec == InitConcurrent /\ [][FairNext]_vars

\* ------------------------------------------------------------------------
\* generateUrlVariants on its own: the call of line 60 for any URL string
\* ------------------------------------------------------------------------
\* the tokens of a string without a colon, which new URL rejects for want
\* of a scheme
NoSchemeTokens == {"//", "www.", "/", "/products"} \cup Names

NoSchemeStrings == UNION { [1..n -> NoSchemeTokens] : n \in 0..MaxUrlTokens }

WwwLabels(k) == [i \in 1..k |-> "www."]

\* scheme://host and scheme://host/path, the host with up to MaxWww "www."
WellFormedUrls ==
    { <<s, "//">> \o WwwLabels(k) \o <<n>> \o p :
        s \in Schemes, k \in 0..MaxWww, n \in Names,
        p \in {<<>>} \cup { <<q>> : q \in Paths } }

UrlStrings == NoSchemeStrings \cup WellFormedUrls

InitVariants ==
    /\ today \in Todays
    /\ url \in [Requests -> UrlStrings]
    /\ pc = [r \in Requests |-> "call"]
    /\ browser = [r \in Requests |-> "open"]
    /\ urlVariants = [r \in Requests |-> <<>>]
    /\ idx = [r \in Requests |-> 0]
    /\ allSnapshots = [r \in Requests |-> <<>>]
    /\ successfulUrl = [r \in Requests |-> <<>>]
    /\ uniqueSnapshots = [r \in Requests |-> <<>>]
    /\ response = [r \in Requests |-> <<>>]
    /\ attempts = [r \in Requests |-> <<>>]
    /\ lastOutcome = [r \in Requests |-> "none"]
    /\ failedBefore = [r \in Requests |-> FALSE]
    /\ lastText = [r \in Requests |-> <<>>]
    /\ FrontendIdle

\* const urlVariants = generateUrlVariants(url)
GenerateVariants(r) ==
    /\ pc[r] = "call"
    /\ urlVariants' = [urlVariants EXCEPT ![r] = generateUrlVariants(url[r])]
    /\ pc' = [pc EXCEPT ![r] = "returned"]
    /\ UNCHANGED <<today, url, browser, idx, allSnapshots, successfulUrl,
                   uniqueSnapshots, response, attempts, lastOutcome, failedBefore, lastText>>
    /\ UNCHANGED frontend

NextVariants == \E r \in DOMAIN pc : GenerateVariants(r)

SpecVariants == InitVariants /\ [][NextVariants]_vars

\* ------------------------------------------------------------------------
\* determineChangeType on its own: the parse loop over a response of two
\* captures of one calendar date, for the dates of StampYears years
\* ------------------------------------------------------------------------
\* YYYYMMDD of the date followed by the time of day hhmmss
StampAt(y, m, d, time) == SubSeq(TimestampOf(y, m, d), 1, 8) \o time

Midnight == <<"0", "0", "0", "0", "0", "0">>
LastSecond == <<"2", "3", "5", "9", "5", "9">>

\* year, month and day fields a CDX line can carry: every day number 0..31
\* of every month, which the Date constructor normalises
StampDates ==
    { <<y, m, d>> : y \in (2024 - StampYears)..2023, m \in 1..12, d \in 0..31 }

\* timestamps whose date fields are not a calendar date
OddStamps ==
    { TsTooShort,
      <<"2", "0", "2", "3", "a", "b", "1", "5">> \o Midnight,
      <<"2", "0", "2", "3", "1", "3", "0", "1">> \o Midnight,
      <<"2", "0", "2", "3", "0", "0", "1", "0">> \o Midnight,
      <<"0", "0", "9", "9", "0", "1", "0", "1">> \o Midnight,
      <<"2", "0", "2", "3", "0", "1">>,
      <<"x">> }

TwoCaptures(a, b) ==
    << HeaderLine,
       <<RecordLine(a, PageUrl, Status200), COMMA>>,
       <<RecordLine(b, OtherUrl, Status200)>> >>

ClassifyTexts ==
    { TwoCaptures(StampAt(t[1], t[2], t[3], Midnight),
                  StampAt(t[1], t[2], t[3], LastSecond)) : t \in StampDates }
    \cup { TwoCaptures(a, a \o <<"9">>) : a \in OddStamps }

\* the local days the classification runs on: 1 March and 31 December 2023
ClassifyDays == { MakeDay(2023, 2, 1), MakeDay(2023, 11, 31) }

InitClassify ==
    /\ today \in ClassifyDays
    /\ url \in [Requests -> UrlInputs]
    /\ pc = [r \in Requests |-> "parse"]
    /\ browser = [r \in Requests |-> "open"]
    /\ urlVariants = [r \in Requests |-> <<>>]
    /\ idx = [r \in Requests |-> 0]
    /\ allSnapshots = [r \in Requests |-> <<>>]
    /\ successfulUrl = [r \in Requests |-> <<>>]
    /\ uniqueSnapshots = [r \in Requests |-> <<>>]
    /\ response = [r \in Requests |-> <<>>]
    /\ attempts = [r \in Requests |-> <<>>]
    /\ lastOutcome = [r \in Requests |-> "none"]
    /\ failedBefore = [r \in Requests |-> FALSE]
    /\ lastText \in [Requests -> { <<t>> : t \in ClassifyTexts }]
    /\ FrontendIdle

\* the parse loop over the lines of the response: each record pushed has
\* changeType: determineChangeType(timestamp)
ParseText(r) ==
    /\ pc[r] = "parse"
    /\ allSnapshots' = [allSnapshots EXCEPT ![r] = parseSnapshots(lastText[r][1], today)]
    /\ pc' = [pc EXCEPT ![r] = "parsed"]
    /\ UNCHANGED <<today, url, browser, urlVariants, idx, successfulUrl,
                   uniqueSnapshots, response, attempts, lastOutcome, failedBefore, lastText>>
    /\ UNCHANGED frontend

NextClassify == \E r \in DOMAIN pc : ParseText(r)

SpecClassify == InitClassify /\ [][NextClassify]_vars

\* ------------------------------------------------------------------------
\* detectABTests on its own: performAdvancedAnalysis from the fetch of the
\* snapshots to the return of detectABTests
\* ------------------------------------------------------------------------
\* 5 and 25 June 2022 (20 days apart within a month), 15 July 2022 at noon
\* (20 days after 25 June), the last second of 2022 and the first of 2023,
\* and two timestamps the parse loop accepts that are not 14 digits
IntervalStamps ==
    { TimestampOf(2022, 6, 5),
      TimestampOf(2022, 6, 25),
      StampAt(2022, 7, 15, <<"1", "2", "0", "0", "0", "0">>),
      StampAt(2022, 12, 31, LastSecond),
      TimestampOf(2023, 1, 1),
      TsTooShort,
      <<>> }

\* a response of the archive with a capture for each timestamp, in order
TextOfStamps(stamps) ==
    <<HeaderLine>> \o [i \in 1..Len(stamps) |-> <<RecordLine(stamps[i], PageUrl, Status200)>>]

IntervalTexts ==
    { TextOfStamps(stamps) : stamps \in UNION { [1..n -> IntervalStamps] : n \in 0..MaxLines } }

\* historicalSnapshots of the response the handler builds from the text
finalSnapshotsOf(text, day) ==
    sliceFinal(filterUnique(sortSnapshots(parseSnapshots(text, day))))

\* the labels a record reaches the analysis with: those of
\* determineChangeType, those of the generated snapshots, and none
AnyChangeTypes ==
    {"recent", "moderate", "significant", "major", "historical", "redesign", "launch", ""}

\* a record as the front end builds it from a row or a generated date
SnapshotOf(timestamp, changeType) ==
    [timestamp  |-> timestamp,
     url        |-> PageUrl,
     statusCode |-> Status200,
     archiveUrl |-> ArchiveBase \o timestamp \o <<"/">> \o ToStringJS(PageUrl),
     changeType |-> changeType]

\* lists of up to two records with any label
ShortLists ==
    LET recs == { SnapshotOf(t, c) : t \in IntervalStamps, c \in AnyChangeTypes }
    IN  UNION { [1..n -> recs] : n \in 0..2 }

\* lists of three to MaxRecords records with distinct timestamps, each
\* labelled by its age on the day
LongListsOn(day) ==
    LET stamps == { s \in UNION { [1..n -> IntervalStamps] : n \in 3..MaxRecords } :
                      \A i, j \in 1..Len(s) : s[i] = s[j] => i = j }
    IN  { [i \in 1..Len(s) |-> SnapshotOf(s[i], determineChangeType(s[i], day))] :
            s \in stamps }

\* the number of days of month m (1..12) of year y
DaysInMonth(y, m) == MakeDay(y, m, 1) - MakeDay(y, m - 1, 1)

\* captures on the first, the 15th and the last day of each of
\* CalendarMonths months from January 2022, at the first and at the last
\* second of the day
CalendarStamps ==
    { StampAt(2022 + (n \div 12), (n % 12) + 1, day, time) :
        n \in 0..(CalendarMonths - 1),
        day \in {1, 15, 31},
        time \in {Midnight, LastSecond} }
    \cup { StampAt(2022 + (n \div 12), (n % 12) + 1,
                   DaysInMonth(2022 + (n \div 12), (n % 12) + 1), LastSecond) :
             n \in 0..(CalendarMonths - 1) }

\* the timestamp is 14 digits that spell a date and a time of day
ValidStamp(ts) ==
    /\ Len(ts) = 14
    /\ \A i \in 1..14 : IsDigit(ts[i])
    /\ LET y  == DigitsValue(SubSeq(ts, 1, 4))
           m  == DigitsValue(SubSeq(ts, 5, 6))
           dd == DigitsValue(SubSeq(ts, 7, 8))
       IN  /\ m \in 1..12
           /\ dd >= 1
           /\ dd <= DaysInMonth(y, m)
    /\ DigitsValue(SubSeq(ts, 9, 10)) <= 23
    /\ DigitsValue(SubSeq(ts, 11, 12)) <= 59
    /\ DigitsValue(SubSeq(ts, 13, 14)) <= 59

\* two captures at the ends of months, in either order, each labelled by
\* its age on the day
MonthEndListsOn(day) ==
    { << SnapshotOf(a, determineChangeType(a, day)),
         SnapshotOf(b, determineChangeType(b, day)) >> :
        a, b \in { ts \in CalendarStamps : ValidStamp(ts) } }

InitIntervals ==
    /\ today \in Todays
    /\ url \in [Requests -> UrlInputs]
    /\ pc = [r \in Requests |-> "launch"]
    /\ browser = [r \in Requests |-> "none"]
    /\ urlVariants = [r \in Requests |-> <<>>]
    /\ idx = [r \in Requests |-> 0]
    /\ allSnapshots = [r \in Requests |-> <<>>]
    /\ successfulUrl = [r \in Requests |-> <<>>]
    /\ uniqueSnapshots = [r \in Requests |-> <<>>]
    /\ response = [r \in Requests |-> <<>>]
    /\ attempts = [r \in Requests |-> <<>>]
    /\ lastOutcome = [r \in Requests |-> "none"]
    /\ failedBefore = [r \in Requests |-> FALSE]
    /\ lastText = [r \in Requests |-> <<>>]
    /\ analysisPc = "fetch"
    /\ waybackInfo = <<>>
    /\ abTests = <<>>
    /\ TimelineIdle
    /\ DiffViewerIdle

handlerVars == <<today, url, pc, browser, urlVariants, idx, allSnapshots, successfulUrl,
                 uniqueSnapshots, response, attempts, lastOutcome, failedBefore, lastText>>

\* the fetch has resolved with the snapshots: the analysis goes on when
\* there are any
Receive(snapshots, source) ==
    /\ waybackInfo' = << [available          |-> Len(snapshots) > 0,
                         historicalSnapshots |-> snapshots,
                         dataSource          |-> source] >>
    /\ analysisPc' = "fetched"
    /\ UNCHANGED abTests
    /\ UNCHANGED <<handlerVars, timeline, diffViewer>>

\* the snapshots are historicalSnapshots of a response of the handler
ReceiveArchive ==
    /\ analysisPc = "fetch"
    /\ \E text \in IntervalTexts : Receive(finalSnapshotsOf(text, today), "wayback")

\* the snapshots are rows of the index or generated ones
ReceiveOther ==
    /\ analysisPc = "fetch"
    /\ \E snapshots \in ShortLists \cup LongListsOn(today) \cup MonthEndListsOn(today) :
          Receive(snapshots, "mock")

\* if (!waybackInfo.available) return { status: 'not_archived' }
NotArchived ==
    /\ analysisPc = "fetched"
    /\ ~waybackInfo[1].available
    /\ analysisPc' = "not_archived"
    /\ UNCHANGED <<waybackInfo, abTests>>
    /\ UNCHANGED <<handlerVars, timeline, diffViewer>>

\* const abTests = detectABTests(waybackInfo.historicalSnapshots); the sort
\* inside it reorders historicalSnapshots itself
DetectABTests ==
    /\ analysisPc = "fetched"
    /\ waybackInfo[1].available
    /\ LET snapshots == waybackInfo[1].historicalSnapshots
       IN  /\ abTests' = detectABTests(snapshots)
           /\ waybackInfo' = << [waybackInfo[1] EXCEPT !.historicalSnapshots =
                                   IF Len(snapshots) < 2 THEN snapshots
                                   ELSE sortedSnapshots(snapshots)] >>
    /\ analysisPc' = "detected"
    /\ UNCHANGED <<handlerVars, timeline, diffViewer>>

NextIntervals ==
    \/ ReceiveArchive
    \/ ReceiveOther
    \/ NotArchived
    \/ DetectABTests

SpecIntervals == InitIntervals /\ [][NextIntervals]_vars

\* ------------------------------------------------------------------------
\* TimelineComparison: the displayed snapshots and the selection
\* ------------------------------------------------------------------------
UpperCase == <<"A", "B", "C", "D", "E", "F", "G", "H", "I", "J", "K", "L", "M",
               "N", "O", "P", "Q", "R", "S", "T", "U", "V", "W", "X", "Y", "Z">>
LowerCase == <<"a", "b", "c", "d", "e", "f", "g", "h", "i", "j", "k", "l", "m",
               "n", "o", "p", "q", "r", "s", "t", "u", "v", "w", "x", "y", "z">>

\* String.prototype.toLowerCase on the letters A to Z
toLowerCase(s) ==
    [i \in 1..Len(s) |->
        IF \E k \in 1..26 : UpperCase[k] = s[i]
        THEN LowerCase[CHOOSE k \in 1..26 : UpperCase[k] = s[i]]
        ELSE s[i]]

\* String.prototype.includes
includes(s, term) ==
    \E i \in 0..(Len(s) - Len(term)) : SubSeq(s, i + 1, i + Len(term)) = term

\* the characters of a label; none for a record without changeType
LabelText(changeType) ==
    CASE changeType = "recent"      -> <<"r", "e", "c", "e", "n", "t">>
      [] changeType = "moderate"    -> <<"m", "o", "d", "e", "r", "a", "t", "e">>
      [] changeType = "significant" -> <<"s", "i", "g", "n", "i", "f", "i", "c", "a", "n", "t">>
      [] changeType = "major"       -> <<"m", "a", "j", "o", "r">>
      [] changeType = "historical"  -> <<"h", "i", "s", "t", "o", "r", "i", "c", "a", "l">>
      [] changeType = "redesign"    -> <<"r", "e", "d", "e", "s", "i", "g", "n">>
      [] changeType = "launch"      -> <<"l", "a", "u", "n", "c", "h">>
      [] OTHER                      -> <<>>

\* if (filterType !== 'all') filtered = filtered.filter(changeType === filterType)
filterByType(snapshots, type) ==
    IF type # "all"
    THEN SelectSeq(snapshots, LAMBDA snapshot : snapshot.changeType = type)
    ELSE snapshots

\* if (searchTerm) filtered = filtered.filter(timestamp or label includes term)
filterBySearch(snapshots, search) ==
    IF search # <<>>
    THEN LET term == toLowerCase(search)
         IN  SelectSeq(snapshots,
                       LAMBDA snapshot :
                           \/ includes(snapshot.timestamp, term)
                           \/ includes(toLowerCase(LabelText(snapshot.changeType)), term))
    ELSE snapshots

\* filtered.sort((a, b) => sortOrder === 'asc' ? comparison : -comparison)
sortByOrder(snapshots, order) ==
    LET n == Len(snapshots)
        compare(j, i) ==
            LET comparison == localeCompare(snapshots[j].timestamp, snapshots[i].timestamp)
            IN  IF order = "asc" THEN comparison ELSE -comparison
        Before(j, i) == compare(j, i) < 0 \/ (compare(j, i) = 0 /\ j < i)
        rank == [i \in 1..n |-> Cardinality({j \in 1..n : Before(j, i)}) + 1]
    IN  [p \in 1..n |-> snapshots[CHOOSE i \in 1..n : rank[i] = p]]

\* const sortedSnapshots = useMemo(...) of the component: the snapshots the
\* timeline displays
timelineSortedSnapshots ==
    sortByOrder(filterBySearch(filterByType(pageSnapshots, filterType), searchTerm),
                sortOrder)

\* String(n) of a non-negative integer
RECURSIVE NumberToString(_)
NumberToString(n) ==
    IF n < 10 THEN <<DigitChar[n + 1]>>
    ELSE NumberToString(n \div 10) \o <<DigitChar[(n % 10) + 1]>>

\* a < b for strings of digits, by code units
RECURSIVE CodeUnitsLess(_, _)
CodeUnitsLess(a, b) ==
    IF b = <<>> THEN FALSE
    ELSE IF a = <<>> THEN TRUE
    ELSE IF a[1] # b[1] THEN DigitVal(a[1]) < DigitVal(b[1])
    ELSE CodeUnitsLess(Tail(a), Tail(b))

\* Array.prototype.sort() without a comparison function: the elements in
\* the order of their strings
defaultSort(indices) ==
    LET n == Len(indices)
        str(i) == NumberToString(indices[i])
        Before(j, i) ==
            \/ CodeUnitsLess(str(j), str(i))
            \/ (~CodeUnitsLess(str(i), str(j)) /\ j < i)
        rank == [i \in 1..n |-> Cardinality({j \in 1..n : Before(j, i)}) + 1]
    IN  [p \in 1..n |-> indices[CHOOSE i \in 1..n : rank[i] = p]]

\* the updater of toggleSnapshotSelection(index)
toggleSnapshotSelection(prev, index) ==
    IF \E k \in 1..Len(prev) : prev[k] = index
    THEN SelectSeq(prev, LAMBDA i : i # index)
    ELSE IF Len(prev) < 4
    THEN defaultSort(prev \o <<index>>)
    ELSE prev

\* the labels of the timeline's snapshots, in turn
TimelineLabels ==
    <<"launch", "recent", "moderate", "significant", "major", "redesign", "">>

\* n snapshots, one a month from January 2022
TimelineList(n) ==
    [i \in 1..n |->
        SnapshotOf(TimestampOf(2022 + ((i - 1) \div 12), ((i - 1) % 12) + 1, 1),
                   TimelineLabels[((i - 1) % 7) + 1])]

\* the options of the filter
FilterTypes ==
    {"all", "recent", "moderate", "significant", "major", "redesign", "launch"}

\* what is typed into the search box
SearchTerms ==
    { <<>>, <<"2", "0", "2", "3">>, <<"M", "a", "j">> }

InitTimeline ==
    /\ today \in Todays
    /\ url \in [Requests -> {CHOOSE u \in UrlInputs : TRUE}]
    /\ pc = [r \in Requests |-> "launch"]
    /\ browser = [r \in Requests |-> "none"]
    /\ urlVariants = [r \in Requests |-> <<>>]
    /\ idx = [r \in Requests |-> 0]
    /\ allSnapshots = [r \in Requests |-> <<>>]
    /\ successfulUrl = [r \in Requests |-> <<>>]
    /\ uniqueSnapshots = [r \in Requests |-> <<>>]
    /\ response = [r \in Requests |-> <<>>]
    /\ attempts = [r \in Requests |-> <<>>]
    /\ lastOutcome = [r \in Requests |-> "none"]
    /\ failedBefore = [r \in Requests |-> FALSE]
    /\ lastText = [r \in Requests |-> <<>>]
    /\ AnalysisIdle
    /\ DiffViewerIdle
    /\ pageSnapshots = TimelineList(TimelineSnapshots)
    /\ selectedSnapshots = <<>>
    /\ sortOrder = "asc"
    /\ filterType = "all"
    /\ searchTerm = <<>>

\* onClick={() => toggleSnapshotSelection(index)} of a displayed snapshot
ToggleDisplayed ==
    /\ \E index \in 0..(Len(timelineSortedSnapshots) - 1) :
          selectedSnapshots' = toggleSnapshotSelection(selectedSnapshots, index)
    /\ UNCHANGED <<pageSnapshots, sortOrder, filterType, searchTerm>>
    /\ UNCHANGED <<handlerVars, analysis, diffViewer>>

\* onClick={() => toggleSnapshotSelection(snapshotIndex)} of a card of the
\* comparison; the cards are rendered from sortedSnapshots[snapshotIndex]
ToggleCompared ==
    /\ LET displayed == Len(timelineSortedSnapshots)
       IN  \A k \in 1..Len(selectedSnapshots) : selectedSnapshots[k] < displayed
    /\ \E k \in 1..Len(selectedSnapshots) :
          selectedSnapshots' = toggleSnapshotSelection(selectedSnapshots,
                                                       selectedSnapshots[k])
    /\ UNCHANGED <<pageSnapshots, sortOrder, filterType, searchTerm>>
    /\ UNCHANGED <<handlerVars, analysis, diffViewer>>

\* onClick={() => setSelectedSnapshots([])}
ClearSelection ==
    /\ Len(selectedSnapshots) > 0
    /\ selectedSnapshots' = <<>>
    /\ UNCHANGED <<pageSnapshots, sortOrder, filterType, searchTerm>>
    /\ UNCHANGED <<handlerVars, analysis, diffViewer>>

\* onChange={(e) => setFilterType(e.target.value)}
SetFilterType ==
    /\ \E value \in FilterTypes : filterType' = value
    /\ UNCHANGED <<pageSnapshots, selectedSnapshots, sortOrder, searchTerm>>
    /\ UNCHANGED <<handlerVars, analysis, diffViewer>>

\* onChange={(e) => setSearchTerm(e.target.value)}
SetSearchTerm ==
    /\ \E value \in SearchTerms : searchTerm' = value
    /\ UNCHANGED <<pageSnapshots, selectedSnapshots, sortOrder, filterType>>
    /\ UNCHANGED <<handlerVars, analysis, diffViewer>>

\* onClick={() => setSortOrder(sortOrder === 'asc' ? 'desc' : 'asc')}
ToggleSortOrder ==
    /\ sortOrder' = IF sortOrder = "asc" THEN "desc" ELSE "asc"
    /\ UNCHANGED <<pageSnapshots, selectedSnapshots, filterType, searchTerm>>
    /\ UNCHANGED <<handlerVars, analysis, diffViewer>>

NextTimeline ==
    \/ ToggleDisplayed
    \/ ToggleCompared
    \/ ClearSelection
    \/ SetFilterType
    \/ SetSearchTerm
    \/ ToggleSortOrder

SpecTimeline == InitTimeline /\ [][NextTimeline]_vars

\* ------------------------------------------------------------------------
\* CodeDiffViewer: fetchAndCompare
\* ------------------------------------------------------------------------
\* the snapshots that are compared
DiffSnapshots == TimelineList(3)

\* { archiveUrl, timestamp } of a snapshot, as the comparison view passes it
DiffPropOf(snapshot) ==
    [archiveUrl |-> snapshot.archiveUrl, timestamp |-> snapshot.timestamp]

\* the props of the component: two different snapshots
PropPairs ==
    { [leftSnapshot  |-> DiffPropOf(DiffSnapshots[ij[1]]),
       rightSnapshot |-> DiffPropOf(DiffSnapshots[ij[2]])] :
        ij \in { p \in (1..Len(DiffSnapshots)) \X (1..Len(DiffSnapshots)) : p[1] # p[2] } }

\* the page archived at a URL: a title and nothing else; the page did not
\* change between the second and the third snapshot
ArchivedPage(archiveUrl) ==
    <<"<title>",
      IF archiveUrl = DiffSnapshots[1].archiveUrl THEN "Version 1" ELSE "Version 2",
      "</title>">>

\* what fetchArchiveContent(archiveUrl) resolves with: null (here <<>>)
\* when the request fails or the status is not ok, else the text
fetchArchiveContent(archiveUrl) == { <<>>, ArchivedPage(archiveUrl) }

\* parseHTML(html): the text between <title> and </title>, '' without one
parseHTML(html) ==
    [title |-> IF \E i \in 1..(Len(html) - 2) :
                      html[i] = "<title>" /\ html[i + 2] = "</title>"
               THEN html[(CHOOSE i \in 1..(Len(html) - 2) :
                            html[i] = "<title>" /\ html[i + 2] = "</title>") + 1]
               ELSE "",
     full  |-> html]

\* compareHTMLStructure(leftDOM, rightDOM) of pages without meta tags
compareHTMLStructure(leftDOM, rightDOM) ==
    LET lines == IF leftDOM.title # rightDOM.title
                 THEN << [type |-> "removed", content |-> leftDOM.title],
                         [type |-> "added",   content |-> rightDOM.title] >>
                 ELSE <<>>
    IN  [type |-> "html", changeCount |-> Len(lines), lines |-> lines]

\* generateMockDiff(): the same sections at every call
generateMockDiff ==
    << [type |-> "html", changeCount |-> 23,
        lines |-> << [type |-> "unchanged", content |-> "<!DOCTYPE html>"] >>] >>

\* generateRealDiff(leftContent, rightContent): the pages hold no style,
\* script or meta tag, so only the comparison of the structure adds a section
generateRealDiff(leftContent, rightContent) ==
    IF leftContent = <<>> \/ rightContent = <<>> THEN generateMockDiff
    ELSE LET htmlDiff == compareHTMLStructure(parseHTML(leftContent),
                                              parseHTML(rightContent))
             sections == IF Len(htmlDiff.lines) > 0 THEN <<htmlDiff>> ELSE <<>>
         IN  IF Len(sections) > 0 THEN sections ELSE generateMockDiff

\* what the try block of fetchAndCompare passes to setDiffSections
diffOfContents(leftContent, rightContent) ==
    IF leftContent = <<>> /\ rightContent = <<>> THEN generateMockDiff
    ELSE generateRealDiff(leftContent, rightContent)

\* a call of fetchAndCompare up to its await: the props are those of the
\* render that created the function
fetchAndCompare(props) ==
    /\ isLoading' = TRUE
    /\ fetchCalls' = Append(fetchCalls, [props |-> props, at |-> "await"])

InitDiff ==
    /\ today \in Todays
    /\ url \in [Requests -> {CHOOSE u \in UrlInputs : TRUE}]
    /\ pc = [r \in Requests |-> "launch"]
    /\ browser = [r \in Requests |-> "none"]
    /\ urlVariants = [r \in Requests |-> <<>>]
    /\ idx = [r \in Requests |-> 0]
    /\ allSnapshots = [r \in Requests |-> <<>>]
    /\ successfulUrl = [r \in Requests |-> <<>>]
    /\ uniqueSnapshots = [r \in Requests |-> <<>>]
    /\ response = [r \in Requests |-> <<>>]
    /\ attempts = [r \in Requests |-> <<>>]
    /\ lastOutcome = [r \in Requests |-> "none"]
    /\ failedBefore = [r \in Requests |-> FALSE]
    /\ lastText = [r \in Requests |-> <<>>]
    /\ AnalysisIdle
    /\ TimelineIdle
    /\ DiffViewerIdle

\* the component is rendered with its first or with new props, and the
\* effect on [leftSnapshot, rightSnapshot] calls fetchAndCompare
RenderWithProps ==
    /\ Len(fetchCalls) < MaxFetches
    /\ \E props \in PropPairs :
          /\ diffProps # <<props>>
          /\ diffProps' = <<props>>
          /\ fetchAndCompare(props)
    /\ UNCHANGED diffSections
    /\ UNCHANGED <<handlerVars, analysis, timeline>>

\* both fetches of a call have resolved: the rest of the try block and the
\* finally block
FetchesResolve ==
    /\ \E i \in 1..Len(fetchCalls) :
          /\ fetchCalls[i].at = "await"
          /\ \E leftContent \in fetchArchiveContent(fetchCalls[i].props.leftSnapshot.archiveUrl),
                rightContent \in fetchArchiveContent(fetchCalls[i].props.rightSnapshot.archiveUrl) :
                diffSections' = diffOfContents(leftContent, rightContent)
          /\ fetchCalls' = [fetchCalls EXCEPT ![i].at = "done"]
    /\ isLoading' = FALSE
    /\ UNCHANGED diffProps
    /\ UNCHANGED <<handlerVars, analysis, timeline>>

NextDiff ==
    \/ RenderWithProps
    \/ FetchesResolve

SpecDiff == InitDiff /\ [][NextDiff]_vars

\* ------------------------------------------------------------------------
\* Properties
\* ------------------------------------------------------------------------
\* the set of elements of a sequence
Range(s) == { s[i] : i \in 1..Len(s) }

\* the request has sent the success response
Succeeded(r) ==
    response[r] # <<>> /\ response[r][1].dataSource = "wayback_api_playwright"

\* the records parsed from the response of the variant that succeeded, in
\* the order of its lines
Pool(r) == attempts[r][Len(attempts[r])].snapshots

\* the loop of the request is over
LoopOver(r) == pc[r] = "close" \/ (pc[r] = "done" /\ idx[r] > 0)

\* C1: the variants are queried in list order, one after the other; every
\* variant queried before the latest one yielded no record; once a variant
\* has yielded a record the loop is over, so that no later variant is ever
\* queried; and the loop is over only after a variant yielded a record or
\* after the last variant was queried.
C1_FirstSuccessStopsLoop ==
    \A r \in DOMAIN pc :
        LET att == attempts[r]
        IN  /\ Len(att) <= Len(urlVariants[r])
            /\ \A i \in 1..Len(att) : att[i].variant = urlVariants[r][i]
            /\ \A i \in 1..(Len(att) - 1) : att[i].snapshots = <<>>
            /\ (Len(att) > 0 /\ att[Len(att)].snapshots # <<>>) => LoopOver(r)
            /\ LoopOver(r) =>
                  /\ Len(att) > 0
                  /\ \/ att[Len(att)].snapshots # <<>>
                     \/ Len(att) = Len(urlVariants[r])

\* C1 witness: the second variant of six yielded a record after the first
\* yielded none, and the loop is over with four variants not queried
C1_Witness ==
    \E r \in DOMAIN pc :
        /\ pc[r] = "close"
        /\ Len(attempts[r]) = 2
        /\ attempts[r][2].snapshots # <<>>
        /\ Len(urlVariants[r]) = 6

\* C2: in a success response, successfulUrl is the first variant of the
\* list whose response yielded a record, the records of that response are
\* the ones parsed from its text, and every record of historicalSnapshots
\* is one of them.
C2_SuccessfulUrlIsFirstSuccess ==
    \A r \in DOMAIN pc :
        (response[r] # <<>> /\ response[r][1].dataSource = "wayback_api_playwright") =>
            LET resp == response[r][1]
                att  == attempts[r]
                k    == Len(att)
            IN  /\ k > 0
                /\ resp.successfulUrl = <<urlVariants[r][k]>>
                /\ att[k].snapshots # <<>>
                /\ \A j \in 1..(k - 1) : att[j].snapshots = <<>>
                /\ lastText[r] # <<>>
                /\ att[k].snapshots = parseSnapshots(TrimSplit(lastText[r][1]), today)
                /\ Range(resp.historicalSnapshots) \subseteq Range(att[k].snapshots)
                /\ resp.historicalSnapshots # <<>>

\* C2 witness: a success response whose successfulUrl is the third
\* variant, not the requested URL
C2_Witness ==
    \E r \in DOMAIN pc :
        /\ response[r] # <<>>
        /\ response[r][1].dataSource = "wayback_api_playwright"
        /\ Len(attempts[r]) = 3
        /\ response[r][1].successfulUrl # <<url[r]>>
        /\ Len(response[r][1].historicalSnapshots) >= 2

\* every variant of the request was queried and none yielded a record
Exhausted(r) ==
    /\ urlVariants[r] # <<>>
    /\ idx[r] > Len(urlVariants[r])
    /\ Len(attempts[r]) = Len(urlVariants[r])
    /\ \A i \in 1..Len(attempts[r]) : attempts[r][i].snapshots = <<>>

\* C3: a request whose variants were all queried without a record ends
\* with the no-data response (status 200, available false, no snapshots,
\* quality low, dataSource wayback_api_no_data), and in every response
\* available is true exactly when historicalSnapshots is not empty.
C3_ExhaustionIsNoDataResponse ==
    \A r \in DOMAIN pc :
        response[r] # <<>> =>
            LET resp == response[r][1]
            IN  /\ Exhausted(r) =>
                      /\ resp.status # 500
                      /\ resp.available = FALSE
                      /\ resp.historicalSnapshots = <<>>
                      /\ resp.analysisQuality = "low"
                      /\ resp.dataSource = "wayback_api_no_data"
                /\ resp.available <=> (resp.historicalSnapshots # <<>>)

\* C4: the error response is sent only when the browser or its page could
\* not be started, that is before the loop over the variants was entered.
C4_ErrorOnlyFromInitialisation ==
    \A r \in DOMAIN pc :
        (response[r] # <<>> /\ response[r][1].dataSource = "error") =>
            /\ response[r][1].status = 500
            /\ response[r][1].available = FALSE
            /\ idx[r] = 0
            /\ attempts[r] = <<>>

\* C5: a step in which the attempt in progress fails leaves the records
\* and successfulUrl as they were, sends no response, and moves the loop
\* to the next variant of the list; and in a success response that follows
\* failed attempts the records are exactly those of the variant that
\* succeeded, sorted and filtered.
C5_FailureStep ==
    \A r \in DOMAIN pc :
        (lastOutcome[r] = "pending" /\ lastOutcome'[r] \in FailureOutcomes) =>
            /\ idx'[r] = idx[r] + 1
            /\ pc'[r] = "loop"
            /\ allSnapshots'[r] = allSnapshots[r]
            /\ successfulUrl'[r] = successfulUrl[r]
            /\ attempts'[r] = attempts[r]
            /\ response'[r] = <<>>

\* the records of a success response are those of the variant that
\* succeeded, whatever failed before it
C5_RecordsIntact ==
    \A r \in DOMAIN pc :
        Succeeded(r) =>
            /\ Len(allSnapshots[r]) = Len(Pool(r))
            /\ Range(allSnapshots[r]) = Range(Pool(r))
            /\ Range(response[r][1].historicalSnapshots) \subseteq Range(Pool(r))

C5_FailureAbsorbed == [][C5_FailureStep]_vars /\ []C5_RecordsIntact

\* C5 witness: a success response of a request whose earlier attempts
\* failed, with the two records of the variant that succeeded
C5_Witness ==
    \E r \in DOMAIN pc :
        /\ Succeeded(r)
        /\ failedBefore[r]
        /\ Len(attempts[r]) >= 3
        /\ Len(response[r][1].historicalSnapshots) = 2

\* timestamp a is later than timestamp b: at the first position where they
\* differ a has the greater digit, or b is a proper prefix of a
Later(a, b) ==
    \/ \E k \in 1..Min(Len(a), Len(b)) :
          /\ \A i \in 1..(k - 1) : a[i] = b[i]
          /\ DigitVal(a[k]) > DigitVal(b[k])
    \/ /\ Len(a) > Len(b)
       /\ \A i \in 1..Len(b) : a[i] = b[i]

\* the first six characters of a timestamp
MonthPrefix(ts) == [i \in 1..Min(6, Len(ts)) |-> ts[i]]

StrictlyDescending(s) ==
    \A i \in 1..(Len(s) - 1) : Later(s[i].timestamp, s[i + 1].timestamp)

DistinctMonths(s) ==
    \A i, j \in 1..Len(s) :
        i # j => MonthPrefix(s[i].timestamp) # MonthPrefix(s[j].timestamp)

\* C6: the filtered list and the list sent are strictly decreasing by
\* timestamp, and no two of their records have the same year-month prefix.
C6_DescendingDistinctMonths ==
    \A r \in DOMAIN pc :
        Succeeded(r) =>
            /\ StrictlyDescending(uniqueSnapshots[r])
            /\ DistinctMonths(uniqueSnapshots[r])
            /\ StrictlyDescending(response[r][1].historicalSnapshots)
            /\ DistinctMonths(response[r][1].historicalSnapshots)

\* C6 witness: a pool that was not in descending order and held several
\* captures of one month gave a filtered list of more than one record
C6_Witness ==
    \E r \in DOMAIN pc :
        /\ Succeeded(r)
        /\ ~StrictlyDescending(Pool(r))
        /\ ~DistinctMonths(Pool(r))
        /\ Len(uniqueSnapshots[r]) >= 2

\* C7: the filtered list is drawn from the pool, and for every record of
\* the pool it holds a record of the same year-month that is not earlier:
\* the capture retained for a month is the latest one of that month.
C7_LatestOfMonthRetained ==
    \A r \in DOMAIN pc :
        Succeeded(r) =>
            /\ Range(uniqueSnapshots[r]) \subseteq Range(Pool(r))
            /\ \A rec \in Range(Pool(r)) :
                  \E u \in Range(uniqueSnapshots[r]) :
                      /\ MonthPrefix(u.timestamp) = MonthPrefix(rec.timestamp)
                      /\ ~Later(rec.timestamp, u.timestamp)

\* C7 witness: the pool held an earlier capture of a month before a later
\* capture of the same month, and the later one was retained
C7_Witness ==
    \E r \in DOMAIN pc :
        /\ Succeeded(r)
        /\ \E i, j \in 1..Len(Pool(r)) :
              /\ i < j
              /\ MonthPrefix(Pool(r)[i].timestamp) = MonthPrefix(Pool(r)[j].timestamp)
              /\ Later(Pool(r)[j].timestamp, Pool(r)[i].timestamp)
              /\ Pool(r)[j] \in Range(uniqueSnapshots[r])
              /\ Pool(r)[i] \notin Range(uniqueSnapshots[r])

\* C8: the list sent has at most 50 records; when the filtered list has
\* more than 50, the list sent is its first 50 records, each of them later
\* than every record left out.
C8_AtMostFiftyMostRecent ==
    \A r \in DOMAIN pc :
        Succeeded(r) =>
            LET sent   == response[r][1].historicalSnapshots
                unique == uniqueSnapshots[r]
            IN  /\ Len(sent) <= 50
                /\ Len(unique) <= 50 => sent = unique
                /\ Len(unique) > 50 =>
                      /\ Len(sent) = 50
                      /\ \A i \in 1..50 : sent[i] = unique[i]
                      /\ \A i \in 1..50 : \A j \in 51..Len(unique) :
                            Later(sent[i].timestamp, unique[j].timestamp)

\* C8 witness: the filtered list had more than 50 records and 50 were sent
C8_Witness ==
    \E r \in DOMAIN pc :
        /\ Succeeded(r)
        /\ Len(uniqueSnapshots[r]) > 50
        /\ Len(response[r][1].historicalSnapshots) = 50

\* a line without the white space around it and without one comma at its end
Stripped(l) ==
    LET t == trim(l)
    IN  IF t # <<>> /\ t[Len(t)] = COMMA THEN SubSeq(t, 1, Len(t) - 1) ELSE t

\* the line is one JSON value, white space apart
IsJsonLine(l) ==
    \E i \in 1..Len(Stripped(l)) :
        /\ IsJsonToken(Stripped(l)[i])
        /\ \A j \in 1..Len(Stripped(l)) : j # i => Stripped(l)[j] = WS

JsonOfLine(l) == Stripped(l)[CHOOSE i \in 1..Len(Stripped(l)) : IsJsonToken(Stripped(l)[i])]

\* the first three elements of the value of a line: of an array, or the
\* first three characters of a string
FieldsOfLine(l) ==
    LET v == JsonOfLine(l)
    IN  IF v.k = "arr" THEN <<v.e[1], v.e[2], v.e[3]>>
        ELSE <<JStr(<<v.s[1]>>), JStr(<<v.s[2]>>), JStr(<<v.s[3]>>)>>

\* the line gives a record: it is not blank, it is valid JSON, its value
\* has at least three elements, its status code is "200", "301" or "-" and
\* its timestamp is a string
YieldsRecord(l) ==
    /\ Stripped(l) # <<>>
    /\ IsJsonLine(l)
    /\ \/ JsonOfLine(l).k = "arr" /\ Len(JsonOfLine(l).e) >= 3
       \/ JsonOfLine(l).k = "str" /\ Len(JsonOfLine(l).s) >= 3
    /\ FieldsOfLine(l)[3] \in {JStr(<<"2", "0", "0">>), JStr(<<"3", "0", "1">>), JStr(<<"-">>)}
    /\ FieldsOfLine(l)[1].k = "str"

\* the parser ran on the text of the latest response of the request
Parsed(r) ==
    /\ lastText[r] # <<>>
    /\ lastOutcome[r] \in {"found", "no_valid"}

\* the records the parser made of that text
ParsedRecords(r) == IF lastOutcome[r] = "found" THEN Pool(r) ELSE <<>>

\* C9: the records made of a response are, in order, one for each line
\* after the first that gives a record, with the timestamp, URL and
\* status code of that line: the first line gives none whatever it holds,
\* one trailing comma is ignored, blank lines, lines that are not JSON,
\* short arrays and other status codes give none, and a line that gives no
\* record does not keep a later line from giving one.
C9_ParserSkipsAndContinues ==
    \A r \in DOMAIN pc :
        Parsed(r) =>
            LET lines == TrimSplit(lastText[r][1])
                data  == SelectSeq(SubSeq(lines, 2, Len(lines)), YieldsRecord)
                recs  == ParsedRecords(r)
            IN  /\ Len(recs) = Len(data)
                /\ \A i \in 1..Len(recs) :
                      /\ recs[i].timestamp = FieldsOfLine(data[i])[1].s
                      /\ recs[i].url = FieldsOfLine(data[i])[2]
                      /\ recs[i].statusCode = FieldsOfLine(data[i])[3].s
                      /\ recs[i].statusCode \in {<<"2", "0", "0">>, <<"3", "0", "1">>, <<"-">>}

\* C9 witness: a first line that would give a record gave none, the second
\* line was not JSON, and the third line gave the only record
C9_Witness ==
    \E r \in DOMAIN pc :
        /\ Parsed(r)
        /\ LET lines == TrimSplit(lastText[r][1])
           IN  /\ Len(lines) = 3
               /\ YieldsRecord(lines[1])
               /\ Stripped(lines[2]) # <<>> /\ ~IsJsonLine(lines[2])
               /\ YieldsRecord(lines[3])
               /\ lines[3][Len(lines[3])] = COMMA
               /\ Len(ParsedRecords(r)) = 1

\* C10: every record has a timestamp of exactly 14 digits.
C10_TimestampIsFourteenDigits ==
    \A r \in DOMAIN pc :
        \A rec \in Range(allSnapshots[r]) :
            /\ Len(rec.timestamp) = 14
            /\ \A i \in 1..Len(rec.timestamp) : IsDigit(rec.timestamp[i])

\* ------------------------------------------------------------------------
\* Properties of generateUrlVariants
\* ------------------------------------------------------------------------
\* the call of generateUrlVariants has returned
Returned(r) == pc[r] = "returned"

NoDuplicates(s) == \A i, j \in 1..Len(s) : s[i] = s[j] => i = j

\* C11: for every input string, the list generateUrlVariants returns has
\* the input as its first element and holds no entry twice.
C11_InputFirstNoDuplicates ==
    \A r \in DOMAIN pc :
        Returned(r) =>
            /\ Len(urlVariants[r]) >= 1
            /\ urlVariants[r][1] = url[r]
            /\ NoDuplicates(urlVariants[r])

\* a URL with a path has been expanded: the host was pushed twice and is
\* listed once
C11_Witness ==
    \E r \in DOMAIN pc :
        /\ Returned(r)
        /\ UrlParses(url[r])
        /\ UrlParse(url[r]).path = <<"/products">>
        /\ Len(urlVariants[r]) = 7

\* C12: for every input that new URL rejects, generateUrlVariants returns
\* the one-element list of the input; it returns for every such input, so
\* the call is never left by an exception.
C12_UnparseableGivesInputOnly ==
    \A r \in DOMAIN pc :
        /\ (pc[r] = "call" /\ ~UrlParses(url[r])) => ENABLED GenerateVariants(r)
        /\ (Returned(r) /\ ~UrlParses(url[r])) => urlVariants[r] = <<url[r]>>

\* the call has returned for a string without a scheme
C12_Witness ==
    \E r \in DOMAIN pc :
        /\ Returned(r)
        /\ ~UrlParses(url[r])
        /\ url[r] = <<"www.", "example.com", "/products">>

\* the host name and the path of a well-formed URL string with a path
HostOf(u) == SubSeq(u, 3, Len(u) - 1)
PathOf(u) == <<u[Len(u)]>>
SchemeOf(u) == <<u[1], "//">>

HasPath(u) == UrlParses(u) /\ u[Len(u)] \in Paths /\ u[Len(u)] # "/"

\* C13: for scheme://host/path with a path other than "/", a host without
\* a leading "www." yields the input, scheme://www.host/path, www.host/path,
\* host/path, host and www.host; a host with a leading "www." yields the
\* forms without it: with scheme and path, without scheme, and the bare host.
C13_WwwFormsIncluded ==
    \A r \in DOMAIN pc :
        (Returned(r) /\ HasPath(url[r])) =>
            LET u == url[r]
                host == HostOf(u)
                www == <<"www.">>
            IN  IF host[1] # "www."
                THEN { u,
                       SchemeOf(u) \o www \o host \o PathOf(u),
                       www \o host \o PathOf(u),
                       host \o PathOf(u),
                       host,
                       www \o host } \subseteq Range(urlVariants[r])
                ELSE { SchemeOf(u) \o Tail(host) \o PathOf(u),
                       Tail(host) \o PathOf(u),
                       Tail(host) } \subseteq Range(urlVariants[r])

\* https://example.com/products has been expanded
C13_Witness ==
    \E r \in DOMAIN pc :
        /\ Returned(r)
        /\ url[r] = <<"https:", "//", "example.com", "/products">>
        /\ <<"www.", "example.com">> \in Range(urlVariants[r])

\* ------------------------------------------------------------------------
\* Properties of determineChangeType
\* ------------------------------------------------------------------------
ChangeTypes == {"recent", "moderate", "significant", "major", "historical"}

\* the first eight characters of the timestamp are digits
HasDateDigits(ts) == Len(ts) >= 8 /\ \A i \in 1..8 : IsDigit(ts[i])

\* the local day of the calendar date the timestamp starts with
CaptureDay(ts) ==
    DateDays(DigitsValue(SubSeq(ts, 1, 4)), DigitsValue(SubSeq(ts, 5, 6)) - 1,
             DigitsValue(SubSeq(ts, 7, 8)))

\* days from the capture date to the day of the analysis
AgeInDays(rec) == today - CaptureDay(rec.timestamp)

LabelOfMonths(monthsAgo) ==
    CASE monthsAgo <= 2 -> "recent"
      [] monthsAgo > 2 /\ monthsAgo <= 6 -> "moderate"
      [] monthsAgo > 6 /\ monthsAgo <= 12 -> "significant"
      [] monthsAgo > 12 /\ monthsAgo <= 24 -> "major"
      [] monthsAgo > 24 -> "historical"

\* the records the parse loop has classified
Classified(r) == IF pc[r] = "parsed" THEN Range(allSnapshots[r]) ELSE {}

\* C14: every record is given one of the five labels; for a timestamp that
\* starts with a date the label is that of monthsAgo = floor(days / 30) with
\* the bounds <= 2, <= 6, <= 12, <= 24 inclusive and historical beyond; two
\* records with the same calendar date carry the same label.
C14_LabelByMonthsAgo ==
    \A r \in DOMAIN pc :
        /\ \A rec \in Classified(r) :
              /\ rec.changeType \in ChangeTypes
              /\ HasDateDigits(rec.timestamp) =>
                    rec.changeType = LabelOfMonths(AgeInDays(rec) \div 30)
        /\ \A a, b \in Classified(r) :
              substring(a.timestamp, 0, 8) = substring(b.timestamp, 0, 8)
                  => a.changeType = b.changeType

\* two captures of one date, at midnight and at 23:59:59, exactly 180 days
\* (monthsAgo = 6) before the analysis, are both moderate
C14_Witness ==
    \E r \in DOMAIN pc :
        \E a, b \in Classified(r) :
            /\ a.timestamp # b.timestamp
            /\ HasDateDigits(a.timestamp) /\ HasDateDigits(b.timestamp)
            /\ AgeInDays(a) = 180 /\ AgeInDays(b) = 180
            /\ a.changeType = "moderate" /\ b.changeType = "moderate"

\* C15 as stated: a record dated 45 days before the analysis is moderate
\* and a record dated 10 days before it is recent.
C15_FortyFiveDaysModerate ==
    \A r \in DOMAIN pc :
        \A rec \in Classified(r) :
            HasDateDigits(rec.timestamp) =>
                /\ AgeInDays(rec) = 45 => rec.changeType = "moderate"
                /\ AgeInDays(rec) = 10 => rec.changeType = "recent"

\* C15, amended: a record dated 45 days before the analysis is recent, as
\* is a record dated 10 days before it; a record dated 89 days before is
\* still recent and a record dated 90 days before is moderate.
C15_FortyFiveDaysRecent ==
    \A r \in DOMAIN pc :
        \A rec \in Classified(r) :
            HasDateDigits(rec.timestamp) =>
                /\ AgeInDays(rec) \in {10, 45, 89} => rec.changeType = "recent"
                /\ AgeInDays(rec) = 90 => rec.changeType = "moderate"

\* a record dated 45 days before the analysis has been classified
C15_Witness ==
    \E r \in DOMAIN pc :
        \E rec \in Classified(r) :
            /\ HasDateDigits(rec.timestamp)
            /\ AgeInDays(rec) = 45
            /\ rec.changeType = "recent"

\* ------------------------------------------------------------------------
\* Properties of detectABTests
\* ------------------------------------------------------------------------
\* detectABTests has returned
Detected == analysisPc = "detected"

\* the array the tests were made from, oldest first
SortedInput == waybackInfo[1].historicalSnapshots

\* C16: detectABTests returns at most 3 tests; of more than 3 pairs of
\* neighbours it returns the tests of the 3 most recent pairs, the last
\* three of the ascending walk.
C16_ThreeMostRecentWindows ==
    Detected =>
        /\ Len(abTests) <= 3
        /\ Len(SortedInput) - 1 > 3 =>
              \A k \in 1..3 :
                  abTests[k].snapshots =
                      << SortedInput[Len(SortedInput) - 4 + k],
                         SortedInput[Len(SortedInput) - 3 + k] >>

\* the tests detectABTests has returned
Tests == IF Detected THEN Range(abTests) ELSE {}

\* days from the capture date of the earlier record of the test to that
\* of the later one
DaysApart(test) ==
    CaptureDay(test.snapshots[2].timestamp) - CaptureDay(test.snapshots[1].timestamp)

\* C17: a test of two neighbours whose capture dates are 20 days apart, the
\* later of them labelled significant, has type major_ab_test, confidence
\* 95 and estimatedImpact high.
C17_TwentyDaysSignificant ==
    \A test \in Tests :
        ( /\ HasDateDigits(test.snapshots[1].timestamp)
          /\ HasDateDigits(test.snapshots[2].timestamp)
          /\ DaysApart(test) = 20
          /\ test.snapshots[2].changeType = "significant" )
        => /\ test.type = "major_ab_test"
           /\ test.confidence = 95
           /\ test.estimatedImpact = "high"

\* C18: the confidence of every test is an integer from 0 to 95, whatever
\* the duration and the changeType of the later record.
C18_ConfidenceWithinBounds ==
    \A test \in Tests : test.confidence \in 0..95

\* a test of less than 30 days whose later record is labelled redesign:
\* 85 + 20 is clipped to 95
C18_Witness ==
    \E test \in Tests :
        /\ test.daysDuration # NaN
        /\ test.daysDuration < 30
        /\ test.snapshots[2].changeType = "redesign"
        /\ test.confidence = 95

\* C19: daysDuration of every test made from historicalSnapshots of a
\* response of the handler is a non-negative integer.
C19_DaysDurationNatural ==
    (Detected /\ waybackInfo[1].dataSource = "wayback") =>
        \A test \in Tests : test.daysDuration # NaN /\ test.daysDuration >= 0

\* ------------------------------------------------------------------------
\* Properties of the response
\* ------------------------------------------------------------------------
\* C20: in every response analysisQuality is that of the number n of
\* records in historicalSnapshots of the response: high for n > 15, medium
\* for 5 < n <= 15, low otherwise.
C20_QualityFromRecordCount ==
    \A r \in DOMAIN pc :
        response[r] # <<>> =>
            LET n == Len(response[r][1].historicalSnapshots)
            IN  response[r][1].analysisQuality =
                    CASE n > 15 -> "high"
                      [] n > 5 /\ n <= 15 -> "medium"
                      [] n <= 5 -> "low"

\* a response with 6 records has been sent as medium
C20_Witness ==
    \E r \in DOMAIN pc :
        /\ response[r] # <<>>
        /\ Len(response[r][1].historicalSnapshots) = 6
        /\ response[r][1].analysisQuality = "medium"

\* ------------------------------------------------------------------------
\* Properties of the handler as a whole
\* ------------------------------------------------------------------------
Qualities == {"high", "medium", "low"}

DataSources == {"wayback_api_playwright", "wayback_api_no_data", "error"}

\* the object has the fields of a response, each of its kind
WellFormedResponse(resp) ==
    /\ resp.status \in {200, 500}
    /\ resp.available \in BOOLEAN
    /\ resp.analysisQuality \in Qualities
    /\ resp.dataSource \in DataSources
    /\ resp.error = (resp.status = 500)
    /\ resp.available = (Len(resp.historicalSnapshots) > 0)

\* the variants of the attempts made so far
Attempted(r) == [i \in 1..Len(attempts[r]) |-> attempts[r][i].variant]

\* C21: with every awaited call settling, every request ends with a
\* response; the response is sent once and is never replaced, it is well
\* formed, no variant is attempted twice, and the handler is never
\* anywhere but in one of its steps or done with a response sent.
C21_ExactlyOneResponse ==
    /\ \A r \in Requests : <>(pc[r] = "done" /\ response[r] # <<>>)
    /\ [][\A r \in Requests : response[r] # <<>> => response'[r] = response[r]]_vars
    /\ [](\A r \in Requests :
            /\ Len(response[r]) <= 1
            /\ response[r] # <<>> => WellFormedResponse(response[r][1])
            /\ (pc[r] = "done") = (response[r] # <<>>)
            /\ Len(attempts[r]) <= Len(urlVariants[r])
            /\ NoDuplicates(Attempted(r)))

\* a response has been sent after every variant was attempted and at least
\* one of the attempts failed
C21_Witness ==
    \E r \in Requests :
        /\ pc[r] = "done"
        /\ response[r] # <<>>
        /\ Len(urlVariants[r]) > 1
        /\ Len(attempts[r]) = Len(urlVariants[r])
        /\ failedBefore[r]

\* a request to the archive is awaited: page.goto has been called for the
\* latest attempt and has not settled
InFlight(r) == pc[r] = "goto"

\* C23: within a request no variant is requested twice, whatever became of
\* its attempt; a request to the archive is started only when the attempt
\* before it has ended (with records, without, or with a failure), one
\* attempt at a time, and while it is awaited it is the only one pending.
C23_OneAttemptAtATime ==
    /\ [][\A r \in DOMAIN pc :
            Len(attempts'[r]) # Len(attempts[r]) =>
                /\ Len(attempts'[r]) = Len(attempts[r]) + 1
                /\ lastOutcome[r] # "pending"
                /\ ~InFlight(r) /\ InFlight(r)']_vars
    /\ [](\A r \in DOMAIN pc :
            /\ NoDuplicates(Attempted(r))
            /\ InFlight(r) => lastOutcome[r] = "pending")

\* the request for the second variant is awaited after the first variant
\* failed
C23_Witness ==
    \E r \in DOMAIN pc :
        /\ InFlight(r)
        /\ Len(attempts[r]) = 2
        /\ failedBefore[r]

\* the records the archive returned to the request, in the order received
RECURSIVE OwnRecordsUpTo(_, _)
OwnRecordsUpTo(r, n) ==
    IF n = 0 THEN <<>> ELSE OwnRecordsUpTo(r, n - 1) \o attempts[r][n].snapshots

OwnRecords(r) == OwnRecordsUpTo(r, Len(attempts[r]))

\* C22: with the steps of two requests interleaved at every awaited call,
\* the response of each request is the one of a request alone with the
\* same URL and the same answers of the archive: its variants are those
\* of its own URL, its records are those its own attempts returned, sorted,
\* filtered and sliced, and its successfulUrl is the variant of its own
\* last attempt.
C22_RequestsIsolated ==
    \A r \in DOMAIN pc :
        /\ \A i \in 1..Len(attempts[r]) :
              attempts[r][i].variant = generateUrlVariants(url[r])[i]
        /\ response[r] # <<>> =>
              LET resp == response[r][1]
              IN  CASE resp.dataSource = "error" -> resp = ErrorResponse(url[r])
                    [] resp.dataSource = "wayback_api_no_data" ->
                          /\ OwnRecords(r) = <<>>
                          /\ resp = NoDataResponse(url[r])
                    [] resp.dataSource = "wayback_api_playwright" ->
                          /\ OwnRecords(r) # <<>>
                          /\ resp = SuccessResponse(url[r],
                                 sliceFinal(filterUnique(sortSnapshots(OwnRecords(r)))),
                                 <<attempts[r][Len(attempts[r])].variant>>)

\* two requests for different URLs have both answered, one with records
\* and one without, the second after the first
C22_Witness ==
    /\ DOMAIN pc = TwoRequests
    /\ url[1] # url[2]
    /\ Succeeded(1)
    /\ response[2] # <<>>
    /\ response[2][1].dataSource = "wayback_api_no_data"
    /\ Len(attempts[2]) > 1

\* ------------------------------------------------------------------------
\* More properties of detectABTests
\* ------------------------------------------------------------------------
\* the duration is a number below k
Below(d, k) == d # NaN /\ d < k

TypeOfDuration(d) ==
    CASE Below(d, 30) -> "rapid_iteration"
      [] ~Below(d, 30) /\ Below(d, 90) -> "monthly_optimization"
      [] ~Below(d, 90) /\ Below(d, 180) -> "seasonal_update"
      [] ~Below(d, 180) -> "unknown"

ConfidenceOfDuration(d) ==
    CASE Below(d, 30) -> 85
      [] ~Below(d, 30) /\ Below(d, 90) -> 70
      [] ~Below(d, 90) /\ Below(d, 180) -> 60
      [] ~Below(d, 180) -> 50

BumpOfLabel(c) ==
    CASE c = "recent" -> 10
      [] c = "significant" -> 15
      [] c = "redesign" -> 20
      [] c \notin {"recent", "significant", "redesign"} -> 0

TypeOfLabel(c, baseType) ==
    CASE c = "recent" -> "continuous_optimization"
      [] c = "significant" -> "major_ab_test"
      [] c = "redesign" -> "full_redesign"
      [] c \notin {"recent", "significant", "redesign"} -> baseType

\* C24: type, confidence and estimatedImpact of every test are given by
\* its daysDiff and the changeType of its later record alone: the base is
\* rapid_iteration/85 below 30 days, monthly_optimization/70 below 90,
\* seasonal_update/60 below 180, unknown/50 otherwise; recent adds 10 and
\* sets continuous_optimization, significant adds 15 and sets
\* major_ab_test, redesign adds 20 and sets full_redesign, any other label
\* changes nothing (the sum being clipped at 95); estimatedImpact is high
\* below 30 days, medium below 90, low otherwise.
C24_TestFromDurationAndLabel ==
    \A test \in Tests :
        LET d == test.daysDuration
            c == test.snapshots[2].changeType
        IN  /\ test.type = TypeOfLabel(c, TypeOfDuration(d))
            /\ test.confidence = Min(95, ConfidenceOfDuration(d) + BumpOfLabel(c))
            /\ test.estimatedImpact =
                  CASE Below(d, 30) -> "high"
                    [] ~Below(d, 30) /\ Below(d, 90) -> "medium"
                    [] ~Below(d, 90) -> "low"

\* a test of exactly 90 days whose later record is labelled moderate:
\* seasonal_update, 60, low
C24_Witness ==
    \E test \in Tests :
        /\ test.daysDuration = 90
        /\ test.snapshots[2].changeType = "moderate"
        /\ test.type = "seasonal_update"
        /\ test.confidence = 60
        /\ test.estimatedImpact = "low"

\* the list satisfies what the handler's filter leaves: timestamps of 14
\* digits that spell a date and a time, no two of the same year and month
Deduplicated(snapshots) ==
    /\ \A i \in 1..Len(snapshots) : ValidStamp(snapshots[i].timestamp)
    /\ \A i, j \in 1..Len(snapshots) :
          yearMonthOf(snapshots[i]) = yearMonthOf(snapshots[j]) => i = j

C27_NeverFullRedesign ==
    Detected =>
        /\ waybackInfo[1].dataSource = "wayback" =>
              \A i \in 1..Len(SortedInput) : SortedInput[i].changeType \in ChangeTypes
        /\ (\A i \in 1..Len(SortedInput) : SortedInput[i].changeType \in ChangeTypes) =>
              \A test \in Tests :
                  /\ test.type # "full_redesign"
                  /\ test.confidence <= ConfidenceOfDuration(test.daysDuration) + 15

\* tests were made of records of the handler, the later record of one of
\* them labelled historical
C27_Witness ==
    /\ Detected
    /\ waybackInfo[1].dataSource = "wayback"
    /\ \E test \in Tests :
          /\ test.snapshots[2].changeType = "historical"
          /\ test.type = "rapid_iteration"

\* ------------------------------------------------------------------------
\* The browser of a request
\* ------------------------------------------------------------------------
\* C26: when a response is sent by a handler whose browser was launched,
\* the browser has been closed, on the paths to the error response too.
C26_BrowserClosedBeforeResponse ==
    \A r \in DOMAIN pc :
        (response[r] # <<>> /\ browser[r] # "none") => browser[r] = "closed"

\* ------------------------------------------------------------------------
\* The selection of the timeline
\* ------------------------------------------------------------------------
\* C28: every index in selectedSnapshots is an index of the snapshots the
\* timeline displays, whatever was selected, cleared, filtered, searched
\* or reordered before.
C28_SelectedIndicesValid ==
    \A k \in 1..Len(selectedSnapshots) :
        /\ selectedSnapshots[k] >= 0
        /\ selectedSnapshots[k] < Len(timelineSortedSnapshots)

\* C30: selectedSnapshots is in ascending numeric order after any sequence
\* of toggleSnapshotSelection calls, with indices of 10 and above too.
C30_SelectionAscending ==
    \A j, k \in 1..Len(selectedSnapshots) :
        j < k => selectedSnapshots[j] < selectedSnapshots[k]

\* ------------------------------------------------------------------------
\* The code comparison
\* ------------------------------------------------------------------------
\* the sections fetchAndCompare can show for the props
DiffsFor(props) ==
    { diffOfContents(leftContent, rightContent) :
        leftContent \in fetchArchiveContent(props.leftSnapshot.archiveUrl),
        rightContent \in fetchArchiveContent(props.rightSnapshot.archiveUrl) }

\* every call of fetchAndCompare has completed
AllFetchesDone ==
    /\ fetchCalls # <<>>
    /\ \A i \in 1..Len(fetchCalls) : fetchCalls[i].at = "done"

\* C29: when every fetch has completed, the diff that is shown is one of
\* the current props, also when the props changed while a call was in
\* flight.
C29_DiffOfCurrentProps ==
    AllFetchesDone => diffSections \in DiffsFor(diffProps[1])

====
